---- MODULE Spec2Model ----
(***************************************************************************)
(* Junction core: the Collector (packages/core/src/collector.ts), the      *)
(* Consent Manager (createConsentManager) and the Validator                *)
(* (createValidator), modelled as one state machine.                       *)
(*                                                                         *)
(* Time is counted in ticks of 1000 ms.  Every public operation and every  *)
(* timer/promise callback is one atomic action: JavaScript runs each of    *)
(* them to completion before the next one starts.                          *)
(***************************************************************************)
EXTENDS Integers, Sequences, FiniteSets, TLC

\* ------------------------------------------------------------------ bounds
MaxEvents == 2          \* number of track() calls in a run
MaxConsentCalls == 2    \* number of collector.consent() calls in a run
MaxFlushCalls == 1      \* number of explicit collector.flush() calls in a run
MaxTime == 2            \* the clock stops at this tick
MaxSweeps == 3          \* number of runs of the cleanup interval in a run
MaxReentrant == 2       \* number of track() calls made by an event handler in a run
MaxSubscriptions == 1   \* number of on() calls for one handler and one type in a run
MaxAdds == 1            \* number of addDestination() calls in a run
MaxRemoves == 1         \* number of removeDestination() calls in a run

\* ------------------------------------------------------------ configuration
maxSize == 2            \* config.buffer.maxSize
maxWait == 1            \* config.buffer.maxWait, in ticks
QueueTimeout == 2       \* a positive config.consent.queueTimeout, in ticks
SweepCap == 30          \* the 30_000 ms cap of the cleanup interval, in ticks

NULL == -1              \* JavaScript null for timer handles

Categories == {"necessary", "analytics", "marketing"}

\* ConsentState: a missing key is "undefined"
AllUndefined == [c \in Categories |-> "undefined"]

\* the arguments of collector.consent(): partial consent states
Update(category, value) == [c \in {category} |-> value]

AnalyticsUpdates == { Update("analytics", "true"), Update("analytics", "false") }

ConsentUpdates ==
  AnalyticsUpdates \cup { Update("marketing", "true"), Update("necessary", "false") }

\* What one transform/send pair of a destination can do on one call.
\*   sent            transform returns a payload, send resolves
\*   skip            transform returns null/undefined
\*   transformThrows transform throws
\*   sendThrows      send throws synchronously
\*   sendRejects     send returns a promise that rejects
Outcomes == {"sent", "skip", "transformThrows", "sendThrows", "sendRejects"}

\* A DestinationEntry.  inits: what init() can do ("resolves", "rejects", or
\* only "throws" for an init that throws synchronously); teardowns: what
\* teardown() can do ("returns", "throws" or "rejects"); onConsents: what
\* onConsent() can do ("returns" or "throws"); enabled: FALSE for
\* enabled === false, TRUE when the key is true or missing.
Entry(name, consent, hasOverride, override, outcomes, inits) ==
  [ name |-> name, consent |-> consent, hasOverride |-> hasOverride,
    override |-> override, outcomes |-> outcomes, inits |-> inits,
    teardowns |-> {"returns"}, onConsents |-> {"returns"}, enabled |-> TRUE ]

\* no entry: the loop of initDestinations() awaits nothing
NoEntry == [name |-> "-"]

Reliable(name, consent) ==
  Entry(name, consent, FALSE, <<>>, {"sent"}, {"resolves"})

Config(dests, timeout, defaultState) ==
  [destinations |-> dests, queueTimeout |-> timeout, defaultState |-> defaultState]

\* one destination that needs analytics, consent undecided
\* (collector.test.ts "queues events when consent is pending")
PendingConfig ==
  Config(<< Reliable("ga", <<"analytics">>) >>, QueueTimeout, AllUndefined)

\* the same with queuing disabled
NoQueueConfig ==
  Config(<< Reliable("ga", <<"analytics">>) >>, 0, AllUndefined)

\* the same with a queueTimeout above the cap of the cleanup interval, which
\* the interval does not follow
LongQueueConfig ==
  Config(<< Reliable("ga", <<"analytics">>) >>, SweepCap + QueueTimeout, AllUndefined)

\* two destinations that need the same category
TwoPendingConfig ==
  Config(<< Reliable("ga", <<"analytics">>), Reliable("px", <<"analytics">>) >>,
         QueueTimeout, AllUndefined)

\* a destination that needs only "necessary" before one that needs analytics
NecessaryConfig ==
  Config(<< Reliable("log", <<"necessary">>), Reliable("ga", <<"analytics">>) >>,
         QueueTimeout, AllUndefined)

\* entries that override the consent their destination declares
OverrideConfig ==
  Config(<< Entry("ads", <<"marketing">>, TRUE, <<"analytics", "marketing">>,
                  {"sent"}, {"resolves"}),
            Entry("open", <<"marketing">>, TRUE, <<>>, {"sent"}, {"resolves"}) >>,
         QueueTimeout, AllUndefined)

\* two destinations that need different categories
MixedConfig ==
  Config(<< Reliable("ads", <<"marketing">>), Reliable("ga", <<"analytics">>) >>,
         QueueTimeout, AllUndefined)

\* one destination that needs analytics, consent granted by default
\* (collector.test.ts makeOptions)
GrantedConfig ==
  Config(<< Reliable("ga", <<"analytics">>) >>, QueueTimeout,
         [AllUndefined EXCEPT !["analytics"] = "true"])

\* two destinations that need analytics, consent granted by default
GrantedPairConfig ==
  Config(<< Reliable("ga", <<"analytics">>), Reliable("px", <<"analytics">>) >>,
         QueueTimeout, [AllUndefined EXCEPT !["analytics"] = "true"])

\* two destinations whose teardown returns or throws (collector.test.ts
\* "removeDestination tears down and removes") and one with enabled: false
\* ("skips disabled destinations"); consent undecided
ManagedConfig ==
  Config(<< [Reliable("ga", <<"analytics">>) EXCEPT !.teardowns = {"returns", "throws"}],
            [Reliable("px", <<"analytics">>) EXCEPT !.teardowns = {"returns", "throws"}],
            [Reliable("off", <<"analytics">>) EXCEPT !.enabled = FALSE] >>,
         QueueTimeout, AllUndefined)

\* the entries given to addDestination(): a new destination (collector.test.ts
\* "addDestination registers and initializes at runtime"), one with
\* enabled: false, and one under the name of the configured destination
\* whose init throws synchronously
AddedEntries ==
  { Entry("late-addition", <<"analytics">>, FALSE, <<>>, {"sent"},
          {"resolves", "rejects"}),
    [Reliable("off", <<"analytics">>) EXCEPT !.enabled = FALSE],
    Entry("ga", <<"analytics">>, FALSE, <<>>, {"sent"}, {"throws"}) }

\* the names given to removeDestination(); "unknown" is never registered
RemovedNames == {"ga", "px", "unknown"}

\* config.contracts: product:viewed is strict, product:* is lenient
Contracts ==
  [ k \in {"product:viewed", "product:*"} |->
      IF k = "product:viewed" THEN [mode |-> "strict"] ELSE [mode |-> "lenient"] ]

\* the arguments of track(): properties are "ok" (the schema accepts them)
\* or "bad" (the schema rejects them)
PageViewed == [entity |-> "page", action |-> "viewed", properties |-> "ok"]

TrackInputs ==
  { PageViewed,
    [entity |-> "product", action |-> "viewed", properties |-> "bad"],
    [entity |-> "product", action |-> "viewed", properties |-> "ok"],
    [entity |-> "product", action |-> "added",  properties |-> "bad"] }

\* the keys of the traits given to identify()
TraitKeys == {"email", "name"}

\* UserIdentity before any identify(): no userId, no traits
Anonymous ==
  [userId |-> "undefined", traits |-> [k \in TraitKeys |-> "undefined"]]

\* the arguments of identify(): a userId and some traits
Identity(userId, traitKey, value) ==
  [userId |-> userId, traits |-> [k \in {traitKey} |-> value]]

\* the arguments of manager.setState(): one key, two keys, none, and a key
\* whose value is undefined (ConsentState is a Partial record)
ManagerUpdates ==
  ConsentUpdates \cup
    { << >>, Update("analytics", "undefined"),
      [c \in {"analytics", "marketing"} |-> IF c = "analytics" THEN "true" ELSE "false"] }

\* the arguments of manager.isAllowed() and manager.isPending()
RequiredLists ==
  { << >>, <<"necessary">>, <<"analytics">>, <<"analytics", "marketing">>,
    <<"necessary", "analytics">> }

\* the handlers given to collector.on(): one returns, one throws
GoodHandler == [id |-> 1, throws |-> FALSE]

BadHandler == [id |-> 2, throws |-> TRUE]

\* the (type, handler) pairs that on() is called with
Subscriptions ==
  { <<"event", GoodHandler>>, <<"event", BadHandler>>, <<"destination:send", GoodHandler>> }

\* the listeners given to manager.onChange(): one returns, one throws
ManagerListeners ==
  { [id |-> "good", throws |-> FALSE], [id |-> "bad", throws |-> TRUE] }

VARIABLES
  destinations,   \* Map<string, DestinationEntry> in insertion order
  queueTimeout,   \* config.consent.queueTimeout
  defaultState,   \* config.consent.defaultState
  listeners,      \* consent manager: listeners, in insertion order
  probe,          \* history: the consent manager operation that ran last, its
                  \*          arguments, its result and the listener calls it made
  user,           \* collector: user
  eventListeners, \* collector: eventListeners, the handlers of each event type in
                  \*   insertion order
  contracts,      \* validator: contracts, by "entity:action" key
  state,          \* consent manager: state
  queue,          \* consent manager: queue of [event, queuedAt]
  cleanupAt,      \* consent manager: next firing of the cleanup interval, NULL if none
  buffer,         \* collector: buffer
  flushTimer,     \* collector: flushTimer handle (NULL or the deadline it was armed for)
  timerLive,      \* the runtime still holds a pending timeout for flushTimer
  initIdx,        \* initDestinations: index of the destination whose init is awaited
  initEntry,      \* initDestinations: the entry whose init is awaited, NoEntry when
                  \*   the loop has ended
  initPending,    \* addDestination: the entries whose init promise has not settled
  flushWaiting,   \* number of flush() calls awaiting initPromise
  shutdownPc,     \* shutdown(): "idle" before the call, "flush" while awaiting
                  \*   collector.flush(), "teardown" while awaiting a teardown, "done"
                  \*   when its promise has resolved, "rejected" when it has rejected
  teardownIdx,    \* shutdown(): index of the destination whose teardown is awaited
  rejections,     \* send promises that rejected and whose catch handler has not run yet
  now,            \* Date.now(), in ticks
  nextId,         \* number of events built so far (event ids are 1..nextId)
  consentCalls,   \* number of collector.consent() calls so far
  flushCalls,     \* number of collector.flush() calls so far
  tracked,        \* history: the arguments of each track() call, by event id
  grantedSince,   \* history: the categories that were true at some moment since
                  \*          each event was built
  bufferSince,    \* history: tick at which the buffer last became non-empty
  calls,          \* history: how often each call or emission <<op, dest, ev>> happened
  last            \* history: the operation or callback that ran last, and its calls in order

vars == << destinations, queueTimeout, eventListeners, contracts, defaultState,
           listeners, probe, user, shutdownPc, teardownIdx, state, queue, cleanupAt,
           buffer, flushTimer, timerLive, initIdx, initEntry, initPending,
           flushWaiting, rejections, now, nextId, consentCalls, flushCalls, tracked,
           grantedSince, bufferSince, calls, last >>

\* ------------------------------------------------------------ call records
\* op: the function called or the collector event emitted; dest: destination
\* name or "-"; ev: event id (the count, for queue:flush; 0 when there is none)
L(op, dest, ev) == [op |-> op, dest |-> dest, ev |-> ev]

Count(op, dest, ev) ==
  IF L(op, dest, ev) \in DOMAIN calls THEN calls[L(op, dest, ev)] ELSE 0

Occurrences(trace, x) == Cardinality({i \in 1..Len(trace) : trace[i] = x})

Range(seq) == {seq[i] : i \in 1..Len(seq)}

\* the counts after the calls of `trace` happened
Record(trace) ==
  [x \in DOMAIN calls \cup Range(trace) |->
     (IF x \in DOMAIN calls THEN calls[x] ELSE 0) + Occurrences(trace, x)]

\* CollectorEvent: the types that emit() is called with
CollectorEvents ==
  {"event", "event:valid", "event:invalid", "consent", "destination:send",
   "destination:error", "destination:init", "queue:flush", "error"}

\* eventListeners before any on() call
NoHandlers == [type \in CollectorEvents |-> << >>]

\* the handler calls that one emit(type, payload) makes: every handler of the
\* type in turn, whatever the handlers before it did (x is the call record of
\* the emission)
emit_stopsAtThrow(handlers, x) ==
  LET throwing == {i \in 1..Len(handlers) : handlers[i].throws}
      n == IF throwing = {} THEN Len(handlers)
           ELSE CHOOSE i \in throwing : \A j \in throwing : i <= j
  IN [i \in 1..n |->
        [handler |-> handlers[i].id, type |-> x.op,
         payload |-> [dest |-> x.dest, ev |-> x.ev], timestamp |-> now]]

emit(handlers, x) ==
  [i \in 1..Len(handlers) |->
     [handler |-> handlers[i].id, type |-> x.op,
      payload |-> [dest |-> x.dest, ev |-> x.ev], timestamp |-> now]]

\* the handler calls made by the emissions among the calls of a trace
RECURSIVE deliver(_, _)
deliver(els, trace) ==
  IF trace = << >> \/ els = NoHandlers THEN << >>
  ELSE (IF Head(trace).op \in CollectorEvents
          THEN emit(els[Head(trace).op], Head(trace))
          ELSE << >>)
       \o deliver(els, Tail(trace))

\* `api` ran to its end and made the calls of `trace`; in its k-th call of
\* dispatchToDestinations the i-th destination behaved as outcomes[k][i]
\* and was given events[k]
\* the same, `passed` being the consent states that the calls handed to the
\* "consent" event and to each onConsent, in order (for createConsentManager,
\* the state it left)
RanPassing(api, trace, outcomes, events, passed) ==
  \E t \in {trace} :
    /\ calls' = Record(t)
    /\ last' = [api |-> api, trace |-> t, outcomes |-> outcomes, events |-> events,
                handled |-> deliver(eventListeners, t), threw |-> FALSE,
                passed |-> passed]

RanWith(api, trace, outcomes, events) == RanPassing(api, trace, outcomes, events, << >>)

\* `api` made the calls of `trace` and then threw to its caller
RanAndThrew(api, trace) ==
  \E t \in {trace} :
    /\ calls' = Record(t)
    /\ last' = [api |-> api, trace |-> t, outcomes |-> << >>, events |-> << >>,
                handled |-> deliver(eventListeners, t), threw |-> TRUE,
                passed |-> << >>]

Ran(api, trace) == RanWith(api, trace, << >>, << >>)

\* how often `op` was called so far, whatever the destination name
RECURSIVE Total(_, _)
Total(op, names) ==
  IF names = {} THEN 0
  ELSE LET name == CHOOSE n \in names : TRUE
       IN Count(op, name, 0) + Total(op, names \ {name})

Min(a, b) == IF a < b THEN a ELSE b

\* ------------------------------------------------------------ Validator
NoContract == [mode |-> "none"]

key(entity, action) == entity \o ":" \o action

findContract_wildcardFirst(cs, entity, action) ==
  IF key(entity, "*") \in DOMAIN cs THEN cs[key(entity, "*")]
  ELSE IF key(entity, action) \in DOMAIN cs THEN cs[key(entity, action)]
  ELSE NoContract

findContract(cs, entity, action) ==
  IF key(entity, action) \in DOMAIN cs THEN cs[key(entity, action)]
  ELSE IF key(entity, "*") \in DOMAIN cs THEN cs[key(entity, "*")]
  ELSE NoContract

\* validator.register(contract): contracts.set(key, contract)
register(cs, contract) ==
  [k \in DOMAIN cs \cup {key(contract.entity, contract.action)} |->
     IF k = key(contract.entity, contract.action) THEN contract ELSE cs[k]]

unregister_wildcardToo(cs, entity, action) ==
  [k \in DOMAIN cs \ {key(entity, action), key(entity, "*")} |-> cs[k]]

\* validator.unregister(entity, action): contracts.delete(key)
unregister(cs, entity, action) ==
  [k \in DOMAIN cs \ {key(entity, action)} |-> cs[k]]

hasContract(cs, entity, action) == findContract(cs, entity, action) # NoContract

\* schema.safeParse(properties): success with the parsed data, or failure
safeParse(properties) ==
  IF properties = "ok" THEN [success |-> TRUE, data |-> properties]
  ELSE [success |-> FALSE, data |-> properties]

validate_lenientStrips(cs, event) ==
  LET contract == findContract(cs, event.entity, event.action)
      result == safeParse(event.properties)
  IN IF contract = NoContract
       THEN [valid |-> TRUE, event |-> event, errors |-> FALSE]
     ELSE IF result.success
       THEN [valid |-> TRUE, event |-> [event EXCEPT !.properties = result.data],
             errors |-> FALSE]
     ELSE IF contract.mode = "strict"
       THEN [valid |-> FALSE, event |-> event, errors |-> TRUE]
     ELSE [valid |-> TRUE, event |-> [event EXCEPT !.properties = "undefined"],
           errors |-> TRUE]

validate_alwaysLenient(cs, event) ==
  LET contract == findContract(cs, event.entity, event.action)
      result == safeParse(event.properties)
  IN IF contract = NoContract
       THEN [valid |-> TRUE, event |-> event, errors |-> FALSE]
     ELSE IF result.success
       THEN [valid |-> TRUE, event |-> [event EXCEPT !.properties = result.data],
             errors |-> FALSE]
     ELSE [valid |-> TRUE, event |-> event, errors |-> TRUE]

validate(cs, event) ==
  LET contract == findContract(cs, event.entity, event.action)
      result == safeParse(event.properties)
  IN IF contract = NoContract
       THEN [valid |-> TRUE, event |-> event, errors |-> FALSE]
     ELSE IF result.success
       THEN [valid |-> TRUE, event |-> [event EXCEPT !.properties = result.data],
             errors |-> FALSE]
     ELSE IF contract.mode = "strict"
       THEN [valid |-> FALSE, event |-> event, errors |-> TRUE]
     ELSE [valid |-> TRUE, event |-> event, errors |-> TRUE]

\* ------------------------------------------------------------ Consent Manager
\* no consent manager operation has been called directly yet
NoProbe ==
  [op |-> "createConsentManager", update |-> << >>, required |-> << >>,
   answer |-> FALSE, previous |-> AllUndefined, before |-> << >>, drained |-> << >>,
   notified |-> << >>, threw |-> FALSE, listener |-> ""]

setState_replaces(st, update) ==
  [c \in Categories |-> IF c \in DOMAIN update THEN update[c] ELSE "undefined"]

setState(st, update) ==
  [c \in Categories |-> IF c \in DOMAIN update THEN update[c] ELSE st[c]]

isAllowed_necessaryByValue(st, required) ==
  IF Len(required) = 0
    THEN TRUE
    ELSE \E i \in 1..Len(required) : st[required[i]] = "true"

isAllowed_allRequired(st, required) ==
  IF Len(required) = 0 \/ \A i \in 1..Len(required) : required[i] = "necessary"
    THEN TRUE
    ELSE \A i \in 1..Len(required) : st[required[i]] = "true"

isAllowed_pendingAllows(st, required) ==
  IF Len(required) = 0 \/ \A i \in 1..Len(required) : required[i] = "necessary"
    THEN TRUE
    ELSE \E i \in 1..Len(required) : st[required[i]] # "false"

isAllowed(st, required) ==
  IF Len(required) = 0 \/ \A i \in 1..Len(required) : required[i] = "necessary"
    THEN TRUE
    ELSE \E i \in 1..Len(required) : st[required[i]] = "true"

\* the categories that are explicitly true
Granted(st) == {c \in Categories : st[c] = "true"}

isPending_unlessGranted(st, categories) ==
  \E i \in 1..Len(categories) : st[categories[i]] # "true"

isPending(st, categories) ==
  \E i \in 1..Len(categories) : st[categories[i]] = "undefined"

sweep_keepsAtTimeout(q) ==
  SelectSeq(q, LAMBDA item : now - item.queuedAt <= queueTimeout)

\* the cleanup interval's callback
sweep(q) == SelectSeq(q, LAMBDA item : now - item.queuedAt < queueTimeout)

\* reset(): the state and the queue it leaves
reset_keepsQueue(default, st, q) == [state |-> default, queue |-> q]

reset(default, st, q) == [state |-> default, queue |-> << >>]

\* enqueue(event): the queue it leaves
enqueue(q, event) ==
  IF queueTimeout = 0 THEN q ELSE Append(q, [event |-> event, queuedAt |-> now])

\* drain(): what it returns and the queue it leaves
drain(q) == [drained |-> q, queue |-> << >>]

\* onChange(listener): listeners.add(listener), a Set in insertion order
onChange(ls, listener) ==
  IF \E i \in 1..Len(ls) : ls[i] = listener THEN ls ELSE Append(ls, listener)

\* the unsubscribe function returned by onChange: listeners.delete(listener)
unsubscribe(ls, listener) == SelectSeq(ls, LAMBDA l : l # listener)

notify_stopsAtThrow(ls, new, previous) ==
  LET throwing == {i \in 1..Len(ls) : ls[i].throws}
      n == IF throwing = {} THEN Len(ls)
           ELSE CHOOSE i \in throwing : \A j \in throwing : i <= j
  IN [ called |-> [i \in 1..n |->
                     [listener |-> ls[i].id, state |-> new, previous |-> previous]],
       threw |-> throwing # {} ]

\* notify(previous): the listener calls it makes, in order, and whether an
\* exception leaves it (the catch block swallows what a listener throws)
notify(ls, new, previous) ==
  [ called |-> [i \in 1..Len(ls) |->
                  [listener |-> ls[i].id, state |-> new, previous |-> previous]],
    threw |-> FALSE ]

\* ------------------------------------------------------------ Collector
buildEvent(inp, u) ==
  [id |-> nextId + 1, entity |-> inp.entity, action |-> inp.action,
   properties |-> inp.properties, user |-> u, timestamp |-> now]

\* destinations.has(name), and the position of the name in the Map's order
has(dests, name) == \E p \in 1..Len(dests) : dests[p].name = name

indexOf(dests, name) == CHOOSE p \in 1..Len(dests) : dests[p].name = name

\* destinations.set(entry.destination.name, entry): a name already in the
\* Map keeps its position and gets the new entry
set(dests, entry) ==
  IF has(dests, entry.name)
    THEN [dests EXCEPT ![indexOf(dests, entry.name)] = entry]
    ELSE Append(dests, entry)

\* destinations.delete(name)
delete(dests, name) ==
  IF has(dests, name)
    THEN SubSeq(dests, 1, indexOf(dests, name) - 1)
         \o SubSeq(dests, indexOf(dests, name) + 1, Len(dests))
    ELSE dests

\* createCollector: "for (const entry of config.destinations)", which skips
\* an entry with enabled === false
RECURSIVE registerDestinations(_)
registerDestinations(entries) ==
  IF entries = << >> THEN << >>
  ELSE LET before == registerDestinations(SubSeq(entries, 1, Len(entries) - 1))
           entry == entries[Len(entries)]
       IN IF entry.enabled = FALSE THEN before ELSE set(before, entry)

\* The loop of initDestinations() from the p-th entry of the Map up to its
\* next await: an init that throws synchronously (inits = {"throws"}) is caught and reported and
\* the loop goes on; the loop stops at the first init that returns, whose
\* entry it awaits, or ends after the last entry.
RECURSIVE initLoop(_, _)
initLoop(dests, p) ==
  IF p > Len(dests) THEN [trace |-> << >>, idx |-> p, entry |-> NoEntry]
  ELSE IF dests[p].inits = {"throws"}
    THEN LET rest == initLoop(dests, p + 1)
         IN [rest EXCEPT !.trace = << L("init", dests[p].name, 0),
                                      L("destination:error", dests[p].name, 0) >> \o @]
  ELSE [trace |-> << L("init", dests[p].name, 0) >>, idx |-> p, entry |-> dests[p]]

requiredConsent(entry) ==
  IF entry.hasOverride THEN entry.override ELSE entry.consent

dispatchEntry_sendsWhenPending(entry, event, st, o) ==
  LET name == entry.name
      required == requiredConsent(entry)
      id == event.id
  IN IF ~isAllowed(st, required) /\ ~isPending(st, required)
       THEN << >>
     ELSE << L("transform", name, id), L("send", name, id),
             L("destination:send", name, id) >>

\* One iteration of the loop of dispatchToDestinations: the calls destination
\* `entry` gets for `event` under consent state st when its transform and
\* send behave as outcome o.  A send whose promise will reject is followed by
\* the marker "send.rejects", which is not a call.
dispatchEntry(entry, event, st, o) ==
  LET name == entry.name
      required == requiredConsent(entry)
      id == event.id
  IN IF ~isAllowed(st, required)
       THEN IF isPending(st, required)
              THEN << L("enqueue", name, id) >>
              ELSE << >>
     ELSE IF o = "transformThrows"
       THEN << L("transform", name, id), L("destination:error", name, id) >>
     ELSE IF o = "skip"
       THEN << L("transform", name, id) >>
     ELSE IF o = "sendThrows"
       THEN << L("transform", name, id), L("send", name, id),
               L("destination:error", name, id) >>
     ELSE IF o = "sendRejects"
       THEN << L("transform", name, id), L("send", name, id),
               L("send.rejects", name, id), L("destination:send", name, id) >>
     ELSE << L("transform", name, id), L("send", name, id),
             L("destination:send", name, id) >>

RECURSIVE dispatchFrom(_, _, _, _, _)
dispatchFrom_stopsAtThrow(i, dests, event, st, oc) ==
  IF i > Len(dests) THEN << >>
  ELSE IF oc[i] \in {"transformThrows", "sendThrows"}
    THEN dispatchEntry(dests[i], event, st, oc[i])
  ELSE dispatchEntry(dests[i], event, st, oc[i])
         \o dispatchFrom(i + 1, dests, event, st, oc)

dispatchFrom(i, dests, event, st, oc) ==
  IF i > Len(dests) THEN << >>
  ELSE dispatchEntry(dests[i], event, st, oc[i])
         \o dispatchFrom(i + 1, dests, event, st, oc)

dispatchToDestinations(dests, event, st, oc) ==
  << L("dispatch", "-", event.id) >> \o dispatchFrom(1, dests, event, st, oc)

\* the loop "for (const event of events) dispatchToDestinations(event)"
RECURSIVE dispatchAll(_, _, _, _, _)
dispatchAll_newestFirst(k, events, dests, st, ocs) ==
  IF k > Len(events) THEN << >>
  ELSE dispatchAll(k + 1, events, dests, st, ocs)
         \o dispatchToDestinations(dests, events[k], st, ocs[k])

dispatchAll(k, events, dests, st, ocs) ==
  IF k > Len(events) THEN << >>
  ELSE dispatchToDestinations(dests, events[k], st, ocs[k])
         \o dispatchAll(k + 1, events, dests, st, ocs)

\* the calls among the steps of a dispatch
CallsOf(steps) == SelectSeq(steps, LAMBDA x : x.op # "send.rejects")

RejectionsOf_unhandled(steps) == << >>

\* the send promises among the steps of a dispatch that will reject
RejectionsOf(steps) == SelectSeq(steps, LAMBDA x : x.op = "send.rejects")

\* the entries that the consent.enqueue(event) calls among the steps add to the
\* queue; events holds the events being dispatched
EnqueuedBy_dropsAll(steps, events) == << >>

EnqueuedBy(steps, events) ==
  LET enq == SelectSeq(steps, LAMBDA x : x.op = "enqueue")
      eventOf(id) == CHOOSE e \in Range(events) : e.id = id
  IN IF queueTimeout = 0 THEN << >>
     ELSE [i \in 1..Len(enq) |-> [event |-> eventOf(enq[i].ev), queuedAt |-> now]]

\* the behaviours the destinations can show during one dispatch of n events
OutcomeChoices(n, dests, st) ==
  [ 1..n -> { oc \in [1..Len(dests) -> Outcomes] :
                \A i \in 1..Len(dests) :
                  IF isAllowed(st, requiredConsent(dests[i]))
                    THEN oc[i] \in dests[i].outcomes
                    ELSE oc[i] = "sent" } ]

\* flushBuffer() run by `api` with `buf` in the buffer, after `api` made the
\* calls `pre` and before it makes the calls `post`
flushBuffer(api, pre, buf, post) ==
  /\ flushTimer' = NULL
  /\ timerLive' = IF flushTimer # NULL THEN FALSE ELSE timerLive
  /\ buffer' = <<>>
  /\ \E ocs \in OutcomeChoices(Len(buf), destinations, state) :
     \E steps \in {dispatchAll(1, buf, destinations, state, ocs)} :
          /\ queue' = queue \o EnqueuedBy(steps, buf)
          /\ rejections' = rejections \o RejectionsOf(steps)
          /\ RanWith(api, pre \o CallsOf(steps) \o post, ocs, buf)

\* "buffer.length >= bufferConfig.maxSize" in track()
bufferFull_whenOver(buf) == Len(buf) > maxSize

bufferFull(buf) == Len(buf) >= maxSize

scheduleFlush ==
  IF flushTimer # NULL
    THEN UNCHANGED << flushTimer, timerLive >>
    ELSE flushTimer' = now + maxWait /\ timerLive' = TRUE

\* createCollector(options): the state when it returns.  initDestinations()
\* has run up to its first await, i.e. has called the first destination's init.
InitWith(config) ==
  /\ destinations = registerDestinations(config.destinations)
  /\ queueTimeout = config.queueTimeout
  /\ defaultState = config.defaultState
  /\ listeners = << [id |-> "collector", throws |-> FALSE] >>
  /\ probe = NoProbe
  /\ user = Anonymous
  /\ eventListeners = NoHandlers
  /\ contracts = Contracts
  /\ state = config.defaultState
  /\ queue = <<>>
  /\ cleanupAt = IF config.queueTimeout > 0 THEN Min(config.queueTimeout, SweepCap)
                                            ELSE NULL
  /\ buffer = <<>>
  /\ flushTimer = NULL
  /\ timerLive = FALSE
  /\ initIdx = initLoop(registerDestinations(config.destinations), 1).idx
  /\ initEntry = initLoop(registerDestinations(config.destinations), 1).entry
  /\ initPending = << >>
  /\ flushWaiting = 0
  /\ shutdownPc = "idle"
  /\ teardownIdx = 0
  /\ rejections = <<>>
  /\ now = 0
  /\ nextId = 0
  /\ consentCalls = 0
  /\ flushCalls = 0
  /\ tracked = << >>
  /\ grantedSince = << >>
  /\ bufferSince = 0
  /\ calls = [x \in Range(initLoop(registerDestinations(config.destinations), 1).trace)
                |-> 1]
  /\ last = [api |-> "createCollector",
             trace |-> initLoop(registerDestinations(config.destinations), 1).trace,
             outcomes |-> << >>, events |-> << >>, handled |-> << >>,
             threw |-> FALSE, passed |-> << >>]

\* the body of collector.track(entity, action, properties) when the collector's
\* user is u
track(inp, u) ==
  /\ nextId < MaxEvents
  /\ LET event == buildEvent(inp, u)
         result == validate(contracts, event)
         buf == Append(buffer, result.event)
         emitted == << L("event", "-", event.id), L("event:valid", "-", event.id) >>
     IN /\ nextId' = nextId + 1
        /\ tracked' = Append(tracked, inp)
        /\ grantedSince' = Append(grantedSince, Granted(state))
        /\ IF ~result.valid
             THEN /\ Ran("track", << L("event:invalid", "-", event.id) >>)
                  /\ UNCHANGED << buffer, flushTimer, timerLive, queue, rejections,
                                  bufferSince >>
             ELSE /\ bufferSince' = IF buffer = <<>> THEN now ELSE bufferSince
                  /\ IF bufferFull(buf)
                       THEN flushBuffer("track", emitted, buf, <<>>)
                       ELSE /\ buffer' = buf
                            /\ scheduleFlush
                            /\ Ran("track", emitted)
                            /\ UNCHANGED << queue, rejections >>
  /\ UNCHANGED << destinations, queueTimeout, eventListeners, contracts, defaultState,
                  listeners, probe, shutdownPc, teardownIdx, state, cleanupAt, initIdx,
                  initEntry, initPending, flushWaiting, now, consentCalls, flushCalls >>

\* collector.track(entity, action, properties)
Track(inp) ==
  /\ track(inp, user)
  /\ UNCHANGED user

\* the user after identify(userId, traits)
identified(u, identity) ==
  [userId |-> identity.userId,
   traits |-> [k \in TraitKeys |-> IF k \in DOMAIN identity.traits
                                     THEN identity.traits[k] ELSE u.traits[k]]]

\* collector.identify(userId, traits)
Identify(identity) ==
  /\ user' = identified(user, identity)
  /\ track([entity |-> "user", action |-> "identified", properties |-> "ok"], user')

\* the callback of setTimeout(..., maxWait) armed by scheduleFlush
FlushTimerFire ==
  /\ timerLive
  /\ now >= flushTimer
  /\ flushBuffer("timer", <<>>, buffer, <<>>)
  /\ UNCHANGED << destinations, queueTimeout, eventListeners, contracts, defaultState,
                  listeners, probe, user, shutdownPc, teardownIdx, state, cleanupAt,
                  initIdx, initEntry, initPending, flushWaiting, now, nextId,
                  consentCalls, flushCalls, tracked, grantedSince, bufferSince >>

\* collector.on(type, handler): eventListeners.get(type).add(handler)
On(type, handler) ==
  /\ Count("on", type, handler.id) < MaxSubscriptions
  /\ eventListeners' = [eventListeners EXCEPT ![type] = onChange(@, handler)]
  /\ Ran("on", << L("on", type, handler.id) >>)
  /\ UNCHANGED << destinations, queueTimeout, contracts, defaultState, listeners, probe,
                  user, shutdownPc, teardownIdx, state, queue, cleanupAt, buffer,
                  flushTimer, timerLive, initIdx, initEntry, initPending, flushWaiting,
                  rejections, now, nextId, consentCalls, flushCalls, tracked,
                  grantedSince, bufferSince >>

\* the function that on(type, handler) returned:
\* eventListeners.get(type)?.delete(handler)
Off(type, handler) ==
  /\ Count("unsubscribe", type, handler.id) < Count("on", type, handler.id)
  /\ eventListeners' = [eventListeners EXCEPT ![type] = unsubscribe(@, handler)]
  /\ Ran("unsubscribe", << L("unsubscribe", type, handler.id) >>)
  /\ UNCHANGED << destinations, queueTimeout, contracts, defaultState, listeners, probe,
                  user, shutdownPc, teardownIdx, state, queue, cleanupAt, buffer,
                  flushTimer, timerLive, initIdx, initEntry, initPending, flushWaiting,
                  rejections, now, nextId, consentCalls, flushCalls, tracked,
                  grantedSince, bufferSince >>

\* ---- track() and flushBuffer() while a "destination:send" handler that calls
\* ---- collector.track("page", "viewed") is registered with collector.on().
\* A run record holds what the call has done so far: the buffer, the last
\* event id, the flush timer, the calls made, the events dispatched and the
\* number of flushBuffer() calls on the stack.  handles is the set of events
\* at whose "destination:send" the handler calls track().
Run ==
  [buffer |-> buffer, nextId |-> nextId, timer |-> flushTimer, live |-> timerLive,
   steps |-> << >>, dispatched |-> << >>, depth |-> 0]

RECURSIVE trackRun(_, _), flushBufferRun(_, _), dispatchEventsRun(_, _, _, _),
          dispatchEntriesRun(_, _, _, _)

\* "for (const [name, entry] of destinations)" from the i-th entry on; the
\* handler runs inside emit("destination:send") and calls track() unless it
\* has made all its calls
dispatchEntriesRun(i, event, r, handles) ==
  IF i > Len(destinations) THEN r
  ELSE LET steps == dispatchEntry(destinations[i], event, state, "sent")
           r1 == [r EXCEPT !.steps = @ \o steps]
           emitted == \E p \in 1..Len(steps) : steps[p].op = "destination:send"
           r2 == IF emitted /\ event.id \in handles
                        /\ r1.nextId < MaxEvents + MaxReentrant
                   THEN trackRun(r1, handles)
                   ELSE r1
       IN dispatchEntriesRun(i + 1, event, r2, handles)

\* "for (const event of events) dispatchToDestinations(event)" from the k-th
\* event on
dispatchEventsRun(k, events, r, handles) ==
  IF k > Len(events) THEN r
  ELSE LET r1 == [r EXCEPT !.steps = Append(@, L("dispatch", "-", events[k].id)),
                           !.dispatched = Append(@, events[k])]
       IN dispatchEventsRun(k + 1, events,
                            dispatchEntriesRun(1, events[k], r1, handles), handles)

flushBufferRun_keepsBuffer(r, handles) ==
  LET r0 == [r EXCEPT !.timer = NULL, !.live = IF r.timer # NULL THEN FALSE ELSE @]
  IN IF r.buffer = << >> THEN r0
     ELSE LET r1 == [r0 EXCEPT !.depth = @ + 1,
                               !.steps = Append(@, L("flushBuffer", "-", r.depth + 1))]
              r2 == dispatchEventsRun(1, r.buffer, r1, handles)
          IN [r2 EXCEPT !.depth = @ - 1,
                        !.steps = Append(@, L("flushBuffer.return", "-", r.depth + 1))]

\* flushBuffer(): "const events = [...buffer]; buffer = [];" and the loop
flushBufferRun(r, handles) ==
  LET r0 == [r EXCEPT !.timer = NULL, !.live = IF r.timer # NULL THEN FALSE ELSE @]
  IN IF r.buffer = << >> THEN r0
     ELSE LET r1 == [r0 EXCEPT !.buffer = << >>, !.depth = @ + 1,
                               !.steps = Append(@, L("flushBuffer", "-", r.depth + 1))]
              r2 == dispatchEventsRun(1, r.buffer, r1, handles)
          IN [r2 EXCEPT !.depth = @ - 1,
                        !.steps = Append(@, L("flushBuffer.return", "-", r.depth + 1))]

\* collector.track("page", "viewed")
trackRun(r, handles) ==
  LET event == [buildEvent(PageViewed, user) EXCEPT !.id = r.nextId + 1]
      result == validate(contracts, event)
      r1 == [r EXCEPT !.nextId = @ + 1]
  IN IF ~result.valid
       THEN [r1 EXCEPT !.steps = Append(@, L("event:invalid", "-", event.id))]
       ELSE LET r2 == [r1 EXCEPT !.steps = @ \o << L("event", "-", event.id),
                                                    L("event:valid", "-", event.id) >>,
                                 !.buffer = Append(@, result.event)]
            IN IF bufferFull(r2.buffer)
                 THEN flushBufferRun(r2, handles)
                 ELSE IF r2.timer # NULL THEN r2
                 ELSE [r2 EXCEPT !.timer = now + maxWait, !.live = TRUE]

\* the sets of events at whose "destination:send" the handler calls track()
Handled == SUBSET (1..(MaxEvents + MaxReentrant))

\* the state a run leaves
Returned(api, r) ==
  /\ buffer' = r.buffer
  /\ nextId' = r.nextId
  /\ flushTimer' = r.timer
  /\ timerLive' = r.live
  /\ tracked' = tracked \o [i \in 1..(r.nextId - nextId) |-> PageViewed]
  /\ grantedSince' = grantedSince \o [i \in 1..(r.nextId - nextId) |-> Granted(state)]
  /\ bufferSince' = IF r.buffer # << >> /\ (buffer = << >> \/ r.dispatched # << >>)
                      THEN now ELSE bufferSince
  /\ queue' = queue \o EnqueuedBy(r.steps, r.dispatched)
  /\ rejections' = rejections \o RejectionsOf(r.steps)
  /\ RanWith(api, CallsOf(r.steps), << >>, r.dispatched)
  /\ UNCHANGED << destinations, queueTimeout, eventListeners, contracts, defaultState,
                  listeners, probe, user, shutdownPc, teardownIdx, state, cleanupAt,
                  initIdx, initEntry, initPending, flushWaiting, now, consentCalls,
                  flushCalls >>

\* collector.track("page", "viewed") called by the application
TrackReentrant(handles) ==
  /\ nextId < MaxEvents
  /\ \E r \in {trackRun(Run, handles)} : Returned("track", r)

\* the callback of setTimeout(..., maxWait) armed by scheduleFlush
FlushTimerFireReentrant(handles) ==
  /\ timerLive
  /\ now >= flushTimer
  /\ \E r \in {flushBufferRun(Run, handles)} : Returned("timer", r)

\* the callback of the consent manager's cleanup setInterval
CleanupTimerFire ==
  /\ cleanupAt # NULL
  /\ now >= cleanupAt
  /\ queue' = sweep(queue)
  /\ cleanupAt' = cleanupAt + Min(queueTimeout, SweepCap)
  /\ UNCHANGED << destinations, queueTimeout, eventListeners, contracts, defaultState,
                  listeners, probe, user, shutdownPc, teardownIdx, state, buffer,
                  flushTimer, timerLive, initIdx, initEntry, initPending, flushWaiting,
                  rejections, now, nextId, consentCalls, flushCalls, tracked,
                  grantedSince, bufferSince, calls, last >>

\* the clock advances; a due timer fires before time moves on
Tick ==
  /\ now < MaxTime
  /\ timerLive => now < flushTimer
  /\ cleanupAt # NULL => now < cleanupAt
  /\ now' = now + 1
  /\ UNCHANGED << destinations, queueTimeout, eventListeners, contracts, defaultState,
                  listeners, probe, user, shutdownPc, teardownIdx, state, queue,
                  cleanupAt, buffer, flushTimer, timerLive, initIdx, initEntry,
                  initPending, flushWaiting, rejections, nextId, consentCalls,
                  flushCalls, tracked, grantedSince, bufferSince, calls, last >>

\* the time at which the next timer callback is due
nextTimer ==
  IF timerLive /\ (cleanupAt = NULL \/ flushTimer <= cleanupAt)
    THEN flushTimer
    ELSE cleanupAt

\* the clock advances to the time the next timer is due
AdvanceToTimer ==
  /\ timerLive \/ cleanupAt # NULL
  /\ now < nextTimer
  /\ nextTimer <= (IF cleanupAt = NULL THEN MaxTime ELSE MaxSweeps * Min(queueTimeout, SweepCap))
  /\ now' = nextTimer
  /\ UNCHANGED << destinations, queueTimeout, eventListeners, contracts, defaultState,
                  listeners, probe, user, shutdownPc, teardownIdx, state, queue,
                  cleanupAt, buffer, flushTimer, timerLive, initIdx, initEntry,
                  initPending, flushWaiting, rejections, nextId, consentCalls,
                  flushCalls, tracked, grantedSince, bufferSince, calls, last >>

\* the calls "entry.destination.onConsent?.(state)" of the consent change handler
OnConsentCalls(dests) ==
  [i \in 1..Len(dests) |-> L("onConsent", dests[i].name, 0)]

\* the consent state st as the "consent" emission and the onConsent calls of
\* `trace` hand it over
Passing(trace, st) ==
  [k \in 1..Len(trace) |-> [op |-> trace[k].op, dest |-> trace[k].dest, state |-> st]]

\* the events of a drained queue, in queue order
QueuedEvents(q) == [i \in 1..Len(q) |-> q[i].event]

\* "const updatedEvent = { ...event, user: { ...user } }" for each drained event
updatedEvent_keepsSnapshot(event, u) == event

updatedEvent(event, u) == [event EXCEPT !.user = u]

updatedEvents(events, u) == [i \in 1..Len(events) |-> updatedEvent(events[i], u)]

\* collector.consent(update): consent.setState(update), whose notify() runs the
\* collector's consent.onChange handler before setState returns
Consent(update) ==
  /\ consentCalls < MaxConsentCalls
  /\ consentCalls' = consentCalls + 1
  /\ state' = setState(state, update)
  /\ grantedSince' = [e \in DOMAIN grantedSince |-> grantedSince[e] \cup Granted(state')]
  /\ \/ \E ocs \in OutcomeChoices(Len(queue), destinations, state') :
        \E queued \in {updatedEvents(QueuedEvents(queue), user)} :
        \E steps \in {dispatchAll(1, queued, destinations, state', ocs)} :
          /\ queue' = EnqueuedBy(steps, queued)
          /\ rejections' = rejections \o RejectionsOf(steps)
          /\ RanPassing("consent",
                        << L("consent", "-", 0) >>
                          \o OnConsentCalls(destinations)
                          \o CallsOf(steps)
                          \o << L("queue:flush", "-", Len(queued)) >>,
                        ocs, queued,
                        Passing(<< L("consent", "-", 0) >>
                                  \o OnConsentCalls(destinations), state'))
     \/ \* the onConsent of destination i throws: the exception leaves the
        \* handler and is caught by notify()
        \E i \in 1..Len(destinations) :
          /\ "throws" \in destinations[i].onConsents
          /\ \E made \in {<< L("consent", "-", 0) >>
                            \o SubSeq(OnConsentCalls(destinations), 1, i)} :
               RanPassing("consent", made, << >>, << >>, Passing(made, state'))
          /\ UNCHANGED << queue, rejections >>
  /\ UNCHANGED << destinations, queueTimeout, eventListeners, contracts, defaultState,
                  listeners, probe, user, shutdownPc, teardownIdx, cleanupAt, buffer,
                  flushTimer, timerLive, initIdx, initEntry, initPending, flushWaiting,
                  now, nextId, flushCalls, tracked, bufferSince >>

\* ---- consent() while a "consent" event handler, or the onConsent of a
\* ---- destination, calls collector.consent(inner) the first time it runs.
\* A run record holds what the call has done so far: the manager's state and
\* queue, the calls made, the events dispatched again, the consent states
\* handed over, and whether the call of consent(inner) is still to come.
\* at is 0 when the "consent" event handler makes that call and i when the
\* onConsent of the i-th destination does.
RECURSIVE setStateRun(_, _, _, _), onChangeRun(_, _, _, _), onConsentRun(_, _, _, _, _)

\* "for (const [, entry] of destinations) entry.destination.onConsent?.(state)"
\* from the i-th entry on; st is the handler's state argument
onConsentRun(i, st, r, inner, at) ==
  IF i > Len(destinations) THEN r
  ELSE LET called == << L("onConsent", destinations[i].name, 0) >>
           r1 == [r EXCEPT !.steps = @ \o called, !.passed = @ \o Passing(called, st)]
           r2 == IF at = i /\ r1.inner
                   THEN setStateRun([r1 EXCEPT !.inner = FALSE], inner, inner, at)
                   ELSE r1
       IN onConsentRun(i + 1, st, r2, inner, at)

\* the collector's consent.onChange handler, called with the state st: the
\* "consent" emission, the onConsent calls, then the drain, whose events are
\* dispatched under the manager's state of that moment
onChangeRun(st, r, inner, at) ==
  LET emitted == << L("consent", "-", 0) >>
      r1 == [r EXCEPT !.steps = @ \o emitted, !.passed = @ \o Passing(emitted, st)]
      r2 == IF at = 0 /\ r1.inner
              THEN setStateRun([r1 EXCEPT !.inner = FALSE], inner, inner, at)
              ELSE r1
      r3 == onConsentRun(1, st, r2, inner, at)
      queued == updatedEvents(QueuedEvents(r3.queue), user)
      steps == dispatchAll(1, queued, destinations, r3.state,
                           [k \in 1..Len(queued) |->
                              [i \in 1..Len(destinations) |-> "sent"]])
  IN [r3 EXCEPT !.queue = EnqueuedBy(steps, queued),
                !.steps = @ \o CallsOf(steps)
                            \o << L("queue:flush", "-", Len(queued)) >>,
                !.dispatched = @ \o queued]

\* consent.setState(update): the merge, then notify(), which calls the
\* collector's handler with a copy of the state
setStateRun(r, update, inner, at) ==
  LET r1 == [r EXCEPT !.state = setState(@, update)]
  IN onChangeRun(r1.state, r1, inner, at)

\* collector.consent(update) called by the application
ConsentReentrant(update, inner, at) ==
  /\ consentCalls + 1 < MaxConsentCalls
  /\ at \in 0..Len(destinations)
  /\ \A i \in 1..Len(destinations) : destinations[i].outcomes = {"sent"}
  /\ consentCalls' = consentCalls + 2
  /\ \E r \in {setStateRun([state |-> state, queue |-> queue, steps |-> << >>,
                            dispatched |-> << >>, passed |-> << >>, inner |-> TRUE],
                           update, inner, at)} :
       /\ state' = r.state
       /\ queue' = r.queue
       /\ grantedSince' = [e \in DOMAIN grantedSince |->
                             grantedSince[e] \cup Granted(setState(state, update))
                                             \cup Granted(r.state)]
       /\ RanPassing("consent", r.steps, << >>, r.dispatched, r.passed)
  /\ UNCHANGED << destinations, queueTimeout, eventListeners, contracts, defaultState,
                  listeners, probe, user, shutdownPc, teardownIdx, cleanupAt, buffer,
                  flushTimer, timerLive, initIdx, initEntry, initPending, flushWaiting,
                  rejections, now, nextId, flushCalls, tracked, bufferSince >>

\* initDestinations(): the awaited init of destination initIdx settles; the
\* loop reports it and calls the next destination's init
InitSettled ==
  /\ initEntry # NoEntry
  /\ \E outcome \in initEntry.inits, next \in {initLoop(destinations, initIdx + 1)} :
       /\ Ran("initDestinations",
              << L(IF outcome = "resolves" THEN "destination:init"
                                          ELSE "destination:error",
                   initEntry.name, 0) >>
              \o next.trace)
       /\ initIdx' = next.idx
       /\ initEntry' = next.entry
  /\ UNCHANGED << destinations, queueTimeout, initPending, eventListeners, contracts,
                  defaultState, listeners, probe, user, shutdownPc, teardownIdx, state,
                  queue, cleanupAt, buffer, flushTimer, timerLive, flushWaiting,
                  rejections, now, nextId, consentCalls, flushCalls, tracked,
                  grantedSince, bufferSince >>

\* collector.addDestination(entry): the entry is put in the Map and its init
\* is called; an init that throws synchronously throws out of addDestination,
\* an init that returns leaves a promise whose handlers run later
AddDestination(entry) ==
  /\ Total("addDestination", {e.name : e \in AddedEntries}) < MaxAdds
  /\ destinations' = set(destinations, entry)
  /\ IF entry.inits = {"throws"}
       THEN /\ RanAndThrew("addDestination", << L("addDestination", entry.name, 0),
                                                L("init", entry.name, 0) >>)
            /\ UNCHANGED initPending
       ELSE /\ Ran("addDestination", << L("addDestination", entry.name, 0),
                                        L("init", entry.name, 0) >>)
            /\ initPending' = Append(initPending, entry)
  /\ UNCHANGED << queueTimeout, eventListeners, contracts, defaultState, listeners,
                  probe, user, shutdownPc, teardownIdx, state, queue, cleanupAt, buffer,
                  flushTimer, timerLive, initIdx, initEntry, flushWaiting, rejections,
                  now, nextId, consentCalls, flushCalls, tracked, grantedSince,
                  bufferSince >>

\* the .then() or .catch() handler of the init promise of addDestination
AddedInitSettled ==
  \E p \in 1..Len(initPending) : \E outcome \in initPending[p].inits :
    /\ Ran("addDestination.settled",
           << L(IF outcome = "resolves" THEN "destination:init" ELSE "destination:error",
                initPending[p].name, 0) >>)
    /\ initPending' = SubSeq(initPending, 1, p - 1)
                       \o SubSeq(initPending, p + 1, Len(initPending))
    /\ UNCHANGED << destinations, queueTimeout, eventListeners, contracts,
                    defaultState, listeners, probe, user, shutdownPc, teardownIdx,
                    state, queue, cleanupAt, buffer, flushTimer, timerLive, initIdx,
                    initEntry, flushWaiting, rejections, now, nextId, consentCalls,
                    flushCalls, tracked, grantedSince, bufferSince >>

\* collector.removeDestination(name): nothing for an unknown name; otherwise
\* teardown is called and, when it returns, the entry is deleted.  The loop
\* of initDestinations() iterates the live Map: deleting an entry it has
\* visited moves the entries after it, and its position, down by one.
RemoveDestination(name) ==
  /\ Total("removeDestination", RemovedNames) < MaxRemoves
  /\ IF ~has(destinations, name)
       THEN /\ Ran("removeDestination", << L("removeDestination", name, 0) >>)
            /\ UNCHANGED << destinations, initIdx >>
       ELSE \E outcome \in destinations[indexOf(destinations, name)].teardowns :
              IF outcome = "throws"
                THEN /\ RanAndThrew("removeDestination",
                                    << L("removeDestination", name, 0),
                                       L("teardown", name, 0) >>)
                     /\ UNCHANGED << destinations, initIdx >>
                ELSE /\ Ran("removeDestination",
                            << L("removeDestination", name, 0),
                               L("teardown", name, 0) >>)
                     /\ destinations' = delete(destinations, name)
                     /\ initIdx' = IF indexOf(destinations, name) <= initIdx
                                     THEN initIdx - 1 ELSE initIdx
  /\ UNCHANGED << queueTimeout, initPending, eventListeners, contracts, defaultState,
                  listeners, probe, user, shutdownPc, teardownIdx, state, queue,
                  cleanupAt, buffer, flushTimer, timerLive, initEntry, flushWaiting,
                  rejections, now, nextId, consentCalls, flushCalls, tracked,
                  grantedSince, bufferSince >>

initPromiseResolved_atFirst == initIdx > 1

\* initPromise has resolved: the loop of initDestinations() has ended
initPromiseResolved == initEntry = NoEntry

\* collector.flush() up to "await initPromise"
FlushCall ==
  /\ flushCalls < MaxFlushCalls
  /\ flushCalls' = flushCalls + 1
  /\ flushWaiting' = flushWaiting + 1
  /\ UNCHANGED << destinations, queueTimeout, eventListeners, contracts, defaultState,
                  listeners, probe, user, shutdownPc, teardownIdx, state, queue,
                  cleanupAt, buffer, flushTimer, timerLive, initIdx, initEntry,
                  initPending, rejections, now, nextId, consentCalls, tracked,
                  grantedSince, bufferSince, calls, last >>

\* collector.flush() after "await initPromise": flushBuffer()
FlushContinue ==
  /\ flushWaiting > 0
  /\ initPromiseResolved
  /\ flushWaiting' = flushWaiting - 1
  /\ flushBuffer("flush.resumed", <<>>, buffer, <<>>)
  /\ UNCHANGED << destinations, queueTimeout, eventListeners, contracts, defaultState,
                  listeners, probe, user, shutdownPc, teardownIdx, state, cleanupAt,
                  initIdx, initEntry, initPending, now, nextId, consentCalls,
                  flushCalls, tracked, grantedSince, bufferSince >>

\* the .catch() handler of a send promise that rejected
SendRejected ==
  /\ rejections # <<>>
  /\ Ran("send.catch",
         << L("destination:error", Head(rejections).dest, Head(rejections).ev) >>)
  /\ rejections' = Tail(rejections)
  /\ UNCHANGED << destinations, queueTimeout, eventListeners, contracts, defaultState,
                  listeners, probe, user, shutdownPc, teardownIdx, state, queue,
                  cleanupAt, buffer, flushTimer, timerLive, initIdx, initEntry,
                  initPending, flushWaiting, now, nextId, consentCalls, flushCalls,
                  tracked, grantedSince, bufferSince >>

\* collector.shutdown() up to the "await initPromise" of the flush() it calls
ShutdownCall ==
  /\ shutdownPc = "idle"
  /\ shutdownPc' = "flush"
  /\ UNCHANGED << destinations, queueTimeout, eventListeners, contracts, defaultState,
                  listeners, probe, user, teardownIdx, state, queue, cleanupAt, buffer,
                  flushTimer, timerLive, initIdx, initEntry, initPending, flushWaiting,
                  rejections, now, nextId, consentCalls, flushCalls, tracked,
                  grantedSince, bufferSince, calls, last >>

\* shutdown() after "await initPromise": flush() runs flushBuffer() and
\* resolves, and shutdown() calls the first destination's teardown
ShutdownResume ==
  /\ shutdownPc = "flush"
  /\ initPromiseResolved
  /\ shutdownPc' = "teardown"
  /\ teardownIdx' = 1
  /\ flushBuffer("shutdown.resumed", <<>>, buffer,
                 << L("teardown", destinations[1].name, 0) >>)
  /\ UNCHANGED << destinations, queueTimeout, eventListeners, contracts, defaultState,
                  listeners, probe, user, state, cleanupAt, initIdx, initEntry,
                  initPending, flushWaiting, now, nextId, consentCalls, flushCalls,
                  tracked, grantedSince, bufferSince >>

\* shutdown(): the awaited teardown settles; the loop calls the next
\* destination's teardown or, after the last one, runs
\* "if (flushTimer) clearTimeout(flushTimer)".  A teardown that threw or
\* whose promise rejects makes the await throw: shutdown() rejects there.
TeardownSettled ==
  /\ shutdownPc = "teardown"
  /\ \E outcome \in destinations[teardownIdx].teardowns :
       IF outcome # "returns"
         THEN /\ shutdownPc' = "rejected"
              /\ Ran("shutdown.teardown", << >>)
              /\ UNCHANGED << teardownIdx, timerLive >>
       ELSE IF teardownIdx < Len(destinations)
         THEN /\ teardownIdx' = teardownIdx + 1
              /\ Ran("shutdown.teardown",
                     << L("teardown", destinations[teardownIdx + 1].name, 0) >>)
              /\ UNCHANGED << shutdownPc, timerLive >>
       ELSE /\ shutdownPc' = "done"
            /\ timerLive' = IF flushTimer # NULL THEN FALSE ELSE timerLive
            /\ Ran("shutdown.teardown", << >>)
            /\ UNCHANGED teardownIdx
  /\ UNCHANGED << destinations, queueTimeout, eventListeners, contracts, defaultState,
                  listeners, probe, user, state, queue, cleanupAt, buffer, flushTimer,
                  initIdx, initEntry, initPending, flushWaiting, rejections, now,
                  nextId, consentCalls, flushCalls, tracked, grantedSince,
                  bufferSince >>

\* ------------------------------------------------ Consent Manager, used directly
\* createConsentManager(config): the consent state it starts with, a copy of
\* config.defaultState in which an active signal that the config respects
\* denies analytics and marketing (and, for GPC, personalization, which is not
\* among the modelled categories)
createConsentManager(default, privacy) ==
  LET denied == [c \in {"analytics", "marketing"} |-> "false"]
      afterDNT == IF privacy.respectDNT /\ privacy.doNotTrack = "1"
                    THEN setState(default, denied) ELSE default
  IN IF privacy.respectGPC /\ privacy.globalPrivacyControl = TRUE
       THEN setState(afterDNT, denied) ELSE afterDNT

\* createConsentManager(config): the state when it returns; there is no collector
InitManagerWith(timeout, default, privacy) ==
  /\ destinations = << >>
  /\ queueTimeout = timeout
  /\ defaultState = default
  /\ listeners = << >>
  /\ probe = NoProbe
  /\ user = Anonymous
  /\ eventListeners = NoHandlers
  /\ contracts = << >>
  /\ state = createConsentManager(default, privacy)
  /\ queue = << >>
  /\ cleanupAt = IF timeout > 0 THEN Min(timeout, SweepCap) ELSE NULL
  /\ buffer = << >>
  /\ flushTimer = NULL
  /\ timerLive = FALSE
  /\ initIdx = 1
  /\ initEntry = NoEntry
  /\ initPending = << >>
  /\ flushWaiting = 0
  /\ shutdownPc = "idle"
  /\ teardownIdx = 0
  /\ rejections = << >>
  /\ now = 0
  /\ nextId = 0
  /\ consentCalls = 0
  /\ flushCalls = 0
  /\ tracked = << >>
  /\ grantedSince = << >>
  /\ bufferSince = 0
  /\ calls = << >>
  /\ last = [api |-> "createConsentManager", trace |-> << >>, outcomes |-> << >>,
             events |-> << >>, handled |-> << >>, threw |-> FALSE,
             passed |-> Passing(<< L("createConsentManager", "-", 0) >>,
                                createConsentManager(default, privacy))]

\* the collector's variables, which the consent manager does not touch
collectorVars ==
  << destinations, user, shutdownPc, teardownIdx, buffer, flushTimer, timerLive,
     initIdx, initEntry, initPending, flushWaiting, rejections, consentCalls,
     flushCalls, tracked, grantedSince, bufferSince, calls, last >>

\* manager.setState(update)
ManagerSetState(update) ==
  /\ state' = setState(state, update)
  /\ \E n \in {notify(listeners, state', state)} :
       probe' = [NoProbe EXCEPT !.op = "setState", !.update = update,
                                !.previous = state, !.before = queue,
                                !.notified = n.called, !.threw = n.threw]
  /\ UNCHANGED << queueTimeout, initPending, eventListeners, contracts, defaultState,
                  listeners, queue, cleanupAt, now, nextId, collectorVars >>

\* manager.reset()
ManagerReset ==
  /\ \E r \in {reset(defaultState, state, queue)} :
       /\ state' = r.state
       /\ queue' = r.queue
  /\ \E n \in {notify(listeners, state', state)} :
       probe' = [NoProbe EXCEPT !.op = "reset", !.previous = state, !.before = queue,
                                !.notified = n.called, !.threw = n.threw]
  /\ UNCHANGED << queueTimeout, initPending, eventListeners, contracts, defaultState,
                  listeners, cleanupAt, now, nextId, collectorVars >>

\* manager.isAllowed(required)
ManagerIsAllowed(required) ==
  /\ probe' = [NoProbe EXCEPT !.op = "isAllowed", !.required = required,
                              !.answer = isAllowed(state, required)]
  /\ UNCHANGED << queueTimeout, initPending, eventListeners, contracts, defaultState,
                  listeners, state, queue, cleanupAt, now, nextId, collectorVars >>

\* manager.isPending(categories)
ManagerIsPending(categories) ==
  /\ probe' = [NoProbe EXCEPT !.op = "isPending", !.required = categories,
                              !.answer = isPending(state, categories)]
  /\ UNCHANGED << queueTimeout, initPending, eventListeners, contracts, defaultState,
                  listeners, state, queue, cleanupAt, now, nextId, collectorVars >>

\* manager.enqueue(event) with a fresh event
ManagerEnqueue ==
  /\ nextId < MaxEvents
  /\ nextId' = nextId + 1
  /\ queue' = enqueue(queue, buildEvent(PageViewed, Anonymous))
  /\ probe' = [NoProbe EXCEPT !.op = "enqueue", !.before = queue]
  /\ UNCHANGED << queueTimeout, initPending, eventListeners, contracts, defaultState,
                  listeners, state, cleanupAt, now, collectorVars >>

\* manager.drain()
ManagerDrain ==
  /\ \E d \in {drain(queue)} :
       /\ queue' = d.queue
       /\ probe' = [NoProbe EXCEPT !.op = "drain", !.before = queue,
                                  !.drained = d.drained]
  /\ UNCHANGED << queueTimeout, initPending, eventListeners, contracts, defaultState,
                  listeners, state, cleanupAt, now, nextId, collectorVars >>

\* manager.onChange(listener)
ManagerOnChange(listener) ==
  /\ listeners' = onChange(listeners, listener)
  /\ probe' = [NoProbe EXCEPT !.op = "onChange", !.listener = listener.id]
  /\ UNCHANGED << queueTimeout, initPending, eventListeners, contracts, defaultState,
                  state, queue, cleanupAt, now, nextId, collectorVars >>

\* the unsubscribe function that onChange(listener) returned
ManagerUnsubscribe(listener) ==
  /\ listeners' = unsubscribe(listeners, listener)
  /\ probe' = [NoProbe EXCEPT !.op = "unsubscribe", !.listener = listener.id]
  /\ UNCHANGED << queueTimeout, initPending, eventListeners, contracts, defaultState,
                  state, queue, cleanupAt, now, nextId, collectorVars >>

\* what runs without the caller's doing: timers, the clock, promise callbacks
Timers ==
  \/ FlushTimerFire
  \/ CleanupTimerFire
  \/ Tick

Background ==
  \/ Timers
  \/ InitSettled
  \/ FlushContinue

\* Consent gating with several destinations, flushed by size and by timer.
Init ==
  \E config \in {TwoPendingConfig, NecessaryConfig, OverrideConfig, MixedConfig} :
    InitWith(config)

Next ==
  \/ Track(PageViewed)
  \/ \E update \in ConsentUpdates : Consent(update)
  \/ Timers

Spec == Init /\ [][Next]_vars

\* consent() called again from inside a handler of the consent change.
NextConvergence ==
  \/ Track(PageViewed)
  \/ \E update \in ConsentUpdates : Consent(update)
  \/ \E update \in AnalyticsUpdates, inner \in ConsentUpdates, at \in 0..2 :
       ConsentReentrant(update, inner, at)
  \/ Timers

SpecConvergence == Init /\ [][NextConvergence]_vars

\* One destination whose consent is undecided at first.
InitPending ==
  \E config \in {PendingConfig, NoQueueConfig} : InitWith(config)

NextPending ==
  \/ Track(PageViewed)
  \/ \E update \in AnalyticsUpdates : Consent(update)
  \/ FlushCall
  \/ Background

SpecPending == InitPending /\ [][NextPending]_vars

\* Events under contract.
InitValidation ==
  \E config \in {GrantedConfig, PendingConfig} : InitWith(config)

NextValidation ==
  \/ \E inp \in TrackInputs : Track(inp)
  \/ Consent(Update("analytics", "true"))
  \/ FlushCall
  \/ Background

SpecValidation == InitValidation /\ [][NextValidation]_vars

\* A destination that fails.
\* a destination whose init, transform and send can fail, before a reliable one
\* that needs another category (collector.test.ts "continues dispatching to
\* other destinations when one fails")
InitFailing ==
  InitWith(Config(<< Entry("bad", <<"analytics">>, FALSE, <<>>, Outcomes,
                           {"resolves", "rejects"}),
                     Reliable("ads", <<"marketing">>) >>,
                  QueueTimeout,
                  [AllUndefined EXCEPT !["analytics"] = "true",
                                       !["marketing"] = "true"]))

NextFailing ==
  \/ Track(PageViewed)
  \/ \E category \in {"analytics", "marketing"} : Consent(Update(category, "false"))
  \/ Timers
  \/ InitSettled
  \/ SendRejected

SpecFailing == InitFailing /\ [][NextFailing]_vars

\* Shutdown while events are tracked.
InitShutdown == InitWith(GrantedConfig)

NextShutdown ==
  \/ Track(PageViewed)
  \/ Timers
  \/ InitSettled
  \/ ShutdownCall
  \/ ShutdownResume
  \/ TeardownSettled

SpecShutdown == InitShutdown /\ [][NextShutdown]_vars

\* Identity changes while events wait for consent.
InitIdentity == InitWith(PendingConfig)

NextIdentity ==
  \/ Track(PageViewed)
  \/ \E identity \in { Identity("user-42", "email", "test@test.com"),
                       Identity("user-42", "name", "Test User") } :
       Identify(identity)
  \/ \E update \in AnalyticsUpdates : Consent(update)
  \/ Timers

SpecIdentity == InitIdentity /\ [][NextIdentity]_vars

\* Destinations that name "necessary" while its stored value changes.
InitNecessary ==
  InitWith(Config(<< Reliable("log", <<"necessary">>),
                     Reliable("mix", <<"necessary", "analytics">>) >>,
                  QueueTimeout, AllUndefined))

NextNecessary ==
  \/ Track(PageViewed)
  \/ \E update \in AnalyticsUpdates \cup { Update("necessary", "true"),
                                          Update("necessary", "false") } :
       Consent(update)
  \/ Timers

SpecNecessary == InitNecessary /\ [][NextNecessary]_vars

\* The consent queue while time passes: no queue, a short and a long timeout.
InitQueue ==
  \E config \in {NoQueueConfig, PendingConfig, LongQueueConfig} : InitWith(config)

NextQueue ==
  \/ Track(PageViewed)
  \/ \E update \in AnalyticsUpdates : Consent(update)
  \/ FlushTimerFire
  \/ CleanupTimerFire
  \/ AdvanceToTimer

SpecQueue == InitQueue /\ [][NextQueue]_vars

\* flush() and shutdown() while the inits are pending.  Every init settles,
\* and a continuation whose promise has resolved runs.
InitFlush ==
  InitWith(Config(<< Entry("ga", <<"analytics">>, FALSE, <<>>, {"sent"},
                           {"resolves", "rejects"}),
                     Entry("px", <<"analytics">>, FALSE, <<>>, {"sent"},
                           {"resolves", "rejects"}) >>,
                  QueueTimeout, [AllUndefined EXCEPT !["analytics"] = "true"]))

NextFlush ==
  \/ Track(PageViewed)
  \/ Timers
  \/ InitSettled
  \/ FlushCall
  \/ FlushContinue
  \/ ShutdownCall
  \/ ShutdownResume
  \/ TeardownSettled

SpecFlush ==
  /\ InitFlush
  /\ [][NextFlush]_vars
  /\ WF_vars(InitSettled)
  /\ WF_vars(FlushContinue)

\* Handlers of collector events, subscribed and unsubscribed.
InitHandlers == InitWith(GrantedConfig)

NextHandlers ==
  \/ Track(PageViewed)
  \/ \E sub \in Subscriptions : On(sub[1], sub[2])
  \/ \E sub \in Subscriptions : Off(sub[1], sub[2])
  \/ Timers

SpecHandlers == InitHandlers /\ [][NextHandlers]_vars

\* An event handler that calls track() while a flush dispatches.
InitReentrant ==
  \E config \in {GrantedConfig, GrantedPairConfig} : InitWith(config)

NextReentrant ==
  \/ \E handles \in Handled : TrackReentrant(handles)
  \/ \E handles \in Handled : FlushTimerFireReentrant(handles)
  \/ CleanupTimerFire
  \/ Tick

SpecReentrant == InitReentrant /\ [][NextReentrant]_vars

\* The consent manager on its own: state, listeners, queue.
InitManager ==
  \* the default states of the consent manager tests; config.respectDNT and
  \* config.respectGPC with navigator.doNotTrack and globalPrivacyControl
  \E default \in { AllUndefined, [AllUndefined EXCEPT !["necessary"] = "true"] },
     privacy \in [respectDNT : BOOLEAN, doNotTrack : {"1", "unspecified"},
                  respectGPC : BOOLEAN, globalPrivacyControl : BOOLEAN] :
    InitManagerWith(QueueTimeout, default, privacy)

NextManager ==
  \/ \E update \in ManagerUpdates : ManagerSetState(update)
  \/ ManagerReset
  \/ \E required \in RequiredLists : ManagerIsAllowed(required)
  \/ \E categories \in RequiredLists : ManagerIsPending(categories)
  \/ ManagerEnqueue
  \/ ManagerDrain
  \/ \E listener \in ManagerListeners : ManagerOnChange(listener)
  \/ \E listener \in ManagerListeners : ManagerUnsubscribe(listener)

SpecManager == InitManager /\ [][NextManager]_vars

\* Destinations added at runtime, enabled and disabled.
InitManaged == InitWith(ManagedConfig)

NextAdd ==
  \/ Track(PageViewed)
  \/ Consent(Update("analytics", "true"))
  \/ \E entry \in AddedEntries : AddDestination(entry)
  \/ AddedInitSettled
  \/ InitSettled

SpecAdd == InitManaged /\ [][NextAdd]_vars

\* Destinations removed at runtime.
NextRemove ==
  \/ Track(PageViewed)
  \/ Consent(Update("analytics", "true"))
  \/ \E name \in RemovedNames : RemoveDestination(name)
  \/ InitSettled
  \/ Timers

SpecRemove == InitManaged /\ [][NextRemove]_vars

\* Destinations whose onConsent or teardown fails.
InitFaulty ==
  InitWith(Config(<< [Reliable("ga", <<"analytics">>)
                        EXCEPT !.onConsents = {"returns", "throws"},
                               !.teardowns = {"returns", "throws", "rejects"}],
                     Reliable("px", <<"analytics">>) >>,
                  QueueTimeout, AllUndefined))

NextFaulty ==
  \/ Track(PageViewed)
  \/ Consent(Update("analytics", "true"))
  \/ Timers
  \/ InitSettled
  \/ ShutdownCall
  \/ ShutdownResume
  \/ TeardownSettled

SpecFaulty == InitFaulty /\ [][NextFaulty]_vars

\* ------------------------------------------------------ Validator, used directly
\* the contracts given to register(): makeContract({ entity, action, mode })
MadeContracts ==
  { [entity |-> e, action |-> a, mode |-> m] :
      e \in {"product", "page"}, a \in {"viewed", "*"}, m \in {"strict", "lenient"} }

\* no validator operation has been called yet
NoLookup ==
  [op |-> "createValidator", entity |-> "", action |-> "", before |-> << >>,
   contract |-> NoContract, event |-> << >>, result |-> << >>, answer |-> FALSE]

\* createValidator(): an empty registry
InitValidator ==
  /\ destinations = << >>
  /\ queueTimeout = 0
  /\ defaultState = AllUndefined
  /\ listeners = << >>
  /\ probe = NoLookup
  /\ user = Anonymous
  /\ eventListeners = NoHandlers
  /\ contracts = << >>
  /\ state = AllUndefined
  /\ queue = << >>
  /\ cleanupAt = NULL
  /\ buffer = << >>
  /\ flushTimer = NULL
  /\ timerLive = FALSE
  /\ initIdx = 1
  /\ initEntry = NoEntry
  /\ initPending = << >>
  /\ flushWaiting = 0
  /\ shutdownPc = "idle"
  /\ teardownIdx = 0
  /\ rejections = << >>
  /\ now = 0
  /\ nextId = 0
  /\ consentCalls = 0
  /\ flushCalls = 0
  /\ tracked = << >>
  /\ grantedSince = << >>
  /\ bufferSince = 0
  /\ calls = << >>
  /\ last = [api |-> "createValidator", trace |-> << >>, outcomes |-> << >>,
             events |-> << >>, handled |-> << >>, threw |-> FALSE,
             passed |-> << >>]

\* everything but the registry and the record of the last validator call
validatorVars ==
  << destinations, queueTimeout, eventListeners, defaultState, listeners, user,
     shutdownPc, teardownIdx, state, queue, cleanupAt, buffer, flushTimer, timerLive,
     initIdx, initEntry, initPending, flushWaiting, rejections, now, nextId,
     consentCalls, flushCalls, tracked, grantedSince, bufferSince, calls, last >>

\* validator.register(contract)
ValidatorRegister(contract) ==
  /\ contracts' = register(contracts, contract)
  /\ probe' = [NoLookup EXCEPT !.op = "register", !.entity = contract.entity,
                               !.action = contract.action, !.before = contracts,
                               !.contract = contract]
  /\ UNCHANGED validatorVars

\* validator.unregister(entity, action)
ValidatorUnregister(entity, action) ==
  /\ contracts' = unregister(contracts, entity, action)
  /\ probe' = [NoLookup EXCEPT !.op = "unregister", !.entity = entity,
                               !.action = action, !.before = contracts]
  /\ UNCHANGED validatorVars

\* validator.validate(event)
ValidatorValidate(event) ==
  /\ probe' = [NoLookup EXCEPT !.op = "validate", !.entity = event.entity,
                               !.action = event.action, !.before = contracts,
                               !.event = event, !.result = validate(contracts, event)]
  /\ UNCHANGED contracts
  /\ UNCHANGED validatorVars

\* validator.hasContract(entity, action)
ValidatorHasContract(entity, action) ==
  /\ probe' = [NoLookup EXCEPT !.op = "hasContract", !.entity = entity,
                               !.action = action, !.before = contracts,
                               !.answer = hasContract(contracts, entity, action)]
  /\ UNCHANGED contracts
  /\ UNCHANGED validatorVars

NextValidator ==
  \/ \E contract \in MadeContracts : ValidatorRegister(contract)
  \/ \E contract \in MadeContracts : ValidatorUnregister(contract.entity, contract.action)
  \/ \E event \in TrackInputs : ValidatorValidate(event)
  \/ \E contract \in MadeContracts : ValidatorHasContract(contract.entity, contract.action)

SpecValidator == InitValidator /\ [][NextValidator]_vars

\* ------------------------------------------------------------ claims
EventIds == 1..nextId

Registered == 1..Len(destinations)

Required(i) == requiredConsent(destinations[i])

\* none of the categories of `required` has been explicitly true since event e
\* was built
NeverGranted(required, e) ==
  \A j \in 1..Len(required) : required[j] \notin grantedSince[e]

OnlyNecessary(required) ==
  \A j \in 1..Len(required) : required[j] = "necessary"

\* C1 as stated: a destination none of whose required categories has been
\* explicitly true since an event was built by track() never gets a send
\* call for that event.
C1_ConsentGating ==
  \A i \in Registered, e \in EventIds :
    NeverGranted(Required(i), e) => Count("send", destinations[i].name, e) = 0

\* C1 amended: the same for every destination whose required list holds a
\* category other than "necessary" (an empty or all-"necessary" list is always
\* allowed).
C1_ConsentGatingUnlessNecessary ==
  \A i \in Registered, e \in EventIds :
    (NeverGranted(Required(i), e) /\ ~OnlyNecessary(Required(i)))
      => Count("send", destinations[i].name, e) = 0

\* an event was flushed and then replayed by a consent() call while a
\* destination's categories were never granted
C1_Witness ==
  \E i \in Registered, e \in EventIds :
    /\ NeverGranted(Required(i), e)
    /\ ~OnlyNecessary(Required(i))
    /\ Count("dispatch", "-", e) >= 2
    /\ last.api = "consent"

\* the positions in a trace where a call of dispatchToDestinations starts
DispatchAt(trace) == {p \in 1..Len(trace) : trace[p].op = "dispatch"}

\* the part of a trace made by the k-th call of dispatchToDestinations
Pass(trace, k) ==
  LET starts == DispatchAt(trace)
      s == CHOOSE p \in starts : Cardinality({q \in starts : q < p}) = k - 1
      later == {q \in starts : q > s}
      e == IF later = {} THEN Len(trace)
           ELSE (CHOOSE q \in later : \A r \in later : q <= r) - 1
  IN SubSeq(trace, s, e)

\* x occurs in seq, and after the first occurrence of y
After(seq, x, y) ==
  \E p, q \in 1..Len(seq) : p < q /\ seq[p] = y /\ seq[q] = x

Threw(o) == o \in {"transformThrows", "sendThrows"}

Allowed(i) == OnlyNecessary(Required(i)) \/ \E j \in 1..Len(Required(i)) :
                                               state[Required(i)[j]] = "true"

\* C2: in the operation that ran last, whenever destination A's transform or
\* send threw during the dispatch of an event, exactly one destination:error
\* and no destination:send was emitted for A and that event, A got no send
\* if its transform threw, every destination registered after A that consent
\* allows got its transform (and its send, unless its transform threw or
\* returned nothing) after A's failure, every destination that consent does
\* not allow got neither, and the operation went on to dispatch every event
\* it had to dispatch and returned.
C2_DestinationIsolation ==
  \A k \in 1..Len(last.outcomes) :
    /\ Cardinality(DispatchAt(last.trace)) = Len(last.outcomes)
    /\ \A i \in Registered :
         Threw(last.outcomes[k][i]) =>
           LET pass == Pass(last.trace, k)
               e == pass[1].ev
               A == destinations[i].name
           IN /\ Occurrences(pass, L("destination:error", A, e)) = 1
              /\ Occurrences(pass, L("destination:send", A, e)) = 0
              /\ Occurrences(pass, L("transform", A, e)) = 1
              /\ Occurrences(pass, L("send", A, e))
                   = (IF last.outcomes[k][i] = "sendThrows" THEN 1 ELSE 0)
              /\ \A j \in Registered : j > i =>
                   LET B == destinations[j].name
                       o == last.outcomes[k][j]
                   IN IF Allowed(j)
                        THEN /\ After(pass, L("transform", B, e),
                                      L("destination:error", A, e))
                             /\ Occurrences(pass, L("transform", B, e)) = 1
                             /\ o \notin {"transformThrows", "skip"}
                                  => After(pass, L("send", B, e), L("transform", B, e))
                        ELSE /\ Occurrences(pass, L("transform", B, e)) = 0
                             /\ Occurrences(pass, L("send", B, e)) = 0

\* one flush dispatched two events; the first destination's transform threw
\* for one and its send threw for the other, and the second destination was
\* sent both
C2_Witness ==
  /\ Len(last.outcomes) = 2
  /\ last.outcomes[1][1] = "transformThrows"
  /\ last.outcomes[2][1] = "sendThrows"
  /\ Occurrences(last.trace, L("send", destinations[2].name, 1)) = 1
  /\ Occurrences(last.trace, L("send", destinations[2].name, 2)) = 1

\* the events that the consent() call that ran last drained and replayed
Replayed(trace) == {trace[p].ev : p \in DispatchAt(trace)}

\* C3: after a consent() call that set analytics to true, every destination
\* requiring only analytics has received exactly one transform call and
\* exactly one send call for every event the call replayed from the queue.
C3_QueueReplayOnce ==
  (last.api = "consent" /\ state["analytics"] = "true") =>
    \A i \in Registered, e \in Replayed(last.trace) :
      Required(i) = << "analytics" >> =>
        /\ Count("transform", destinations[i].name, e) = 1
        /\ Count("send", destinations[i].name, e) = 1

\* the arguments of a track() call match a strict contract and fail its schema
StrictFails(inp) ==
  /\ findContract(Contracts, inp.entity, inp.action).mode = "strict"
  /\ inp.properties = "bad"

Held(seq, e) == \E p \in 1..Len(seq) : seq[p].id = e

\* C4: for every event whose track() arguments matched a strict contract and
\* failed its schema, event:invalid was emitted exactly once, event and
\* event:valid were never emitted, the event is neither in the buffer nor in
\* the consent queue, and it was never dispatched, transformed or sent.
C4_StrictDrop ==
  \A e \in EventIds :
    StrictFails(tracked[e]) =>
      /\ Count("event:invalid", "-", e) = 1
      /\ Count("event", "-", e) = 0
      /\ Count("event:valid", "-", e) = 0
      /\ ~Held(buffer, e)
      /\ ~Held(QueuedEvents(queue), e)
      /\ Count("dispatch", "-", e) = 0
      /\ \A i \in Registered :
           /\ Count("transform", destinations[i].name, e) = 0
           /\ Count("send", destinations[i].name, e) = 0
           /\ Count("enqueue", destinations[i].name, e) = 0

\* a strictly invalid event was tracked, then a later event was tracked and
\* dispatched, time passed and consent changed
C4_Witness ==
  \E e \in EventIds :
    /\ StrictFails(tracked[e])
    /\ e < nextId
    /\ Count("dispatch", "-", nextId) > 0
    /\ consentCalls > 0
    /\ now > 0

Ids(events) == [p \in 1..Len(events) |-> events[p].id]

\* the events a trace dispatched, in order
DispatchedIds(trace) ==
  LET d == SelectSeq(trace, LAMBDA x : x.op = "dispatch")
  IN [p \in 1..Len(d) |-> d[p].ev]

\* a step that is a track() call whose event passed validation
ValidTrackStep ==
  /\ nextId' = nextId + 1
  /\ last'.trace[1] = L("event", "-", nextId')

\* C5: a valid track() call that brings the buffer to fewer than maxSize
\* events dispatches nothing and leaves the event in the buffer; a valid
\* track() call that brings it to maxSize events dispatches all of them, in
\* buffer order, in the same step and leaves the buffer empty; after every
\* step the buffer holds fewer than maxSize events.
C5_SizeFlush ==
  [][ /\ Len(buffer') < maxSize
      /\ ValidTrackStep =>
           IF Len(buffer) + 1 < maxSize
             THEN /\ DispatchedIds(last'.trace) = << >>
                  /\ Ids(buffer') = Append(Ids(buffer), nextId')
             ELSE /\ DispatchedIds(last'.trace) = Append(Ids(buffer), nextId')
                  /\ buffer' = << >>
    ]_vars

\* the track() call that ran last dispatched maxSize events
C5_Witness ==
  /\ last.api = "track"
  /\ Len(DispatchedIds(last.trace)) = maxSize

\* the calls made by the step, if it is one that ran an operation or callback
StepTrace == IF calls' # calls THEN last'.trace ELSE << >>

\* destination i is not allowed and one of its required categories is undefined
PendingFor(i) ==
  /\ ~Allowed(i)
  /\ \E j \in 1..Len(Required(i)) : state[Required(i)[j]] = "undefined"

\* the step is a consent() call that sets analytics to true
GrantStep ==
  /\ consentCalls' = consentCalls + 1
  /\ state'["analytics"] = "true"

\* C7 as stated: whenever a step dispatches an event and a destination is not
\* allowed but pending, the event is in the consent queue after the step and
\* the destination gets no transform or send for it in that step; and a
\* consent({analytics: true}) that follows the dispatch of an event to a
\* pending destination requiring analytics makes exactly one transform and
\* one send call to it.
C7_PendingQueues ==
  [][ \A e \in Replayed(StepTrace), i \in Registered :
        LET A == destinations[i].name
        IN /\ PendingFor(i)' =>
                /\ Held(QueuedEvents(queue'), e)
                /\ Occurrences(StepTrace, L("transform", A, e)) = 0
                /\ Occurrences(StepTrace, L("send", A, e)) = 0
           /\ (PendingFor(i) /\ GrantStep /\ Required(i) = << "analytics" >>) =>
                \A q \in EventIds : Count("enqueue", A, q) > 0 =>
                  /\ Occurrences(StepTrace, L("transform", A, q)) = 1
                  /\ Occurrences(StepTrace, L("send", A, q)) = 1
    ]_vars

\* C7 amended: whenever a step dispatches an event and a destination is not
\* allowed but pending, consent.enqueue is called once for the destination
\* and the event, the destination gets no transform or send for it in that
\* step, and after the step the event is in the consent queue with the
\* current time if queueTimeout is positive, while the queue is empty if
\* queueTimeout is 0; and a consent({analytics: true}) makes exactly one
\* transform and one send call to the only destination, which requires
\* analytics, for every event that is in the queue when it is called, and
\* none for any other event.
C7_PendingQueuesWhileQueued ==
  [][ /\ \A e \in Replayed(StepTrace), i \in Registered :
           LET A == destinations[i].name
           IN PendingFor(i)' =>
                /\ Occurrences(StepTrace, L("enqueue", A, e)) = 1
                /\ Occurrences(StepTrace, L("transform", A, e)) = 0
                /\ Occurrences(StepTrace, L("send", A, e)) = 0
                /\ IF queueTimeout > 0
                     THEN \E p \in 1..Len(queue') :
                            queue'[p].event.id = e /\ queue'[p].queuedAt = now
                     ELSE queue' = << >>
      /\ (GrantStep /\ Len(destinations) = 1 /\ Required(1) = << "analytics" >>) =>
           \A q \in EventIds :
             LET A == destinations[1].name
                 n == IF Held(QueuedEvents(queue), q) THEN 1 ELSE 0
             IN /\ Occurrences(StepTrace, L("transform", A, q)) = n
                /\ Occurrences(StepTrace, L("send", A, q)) = n
    ]_vars

\* an event was enqueued for the pending destination by a flush, and the
\* consent({analytics: true}) that ran last made the one send call for it
C7_Witness ==
  /\ last.api = "consent"
  /\ state["analytics"] = "true"
  /\ \E e \in EventIds :
       /\ Count("enqueue", destinations[1].name, e) = 1
       /\ Occurrences(last.trace, L("send", destinations[1].name, e)) = 1
       /\ Count("send", destinations[1].name, e) = 1

\* all of destination i's required categories are explicitly false
DeniedFor(i) ==
  /\ Required(i) # << >>
  /\ \A j \in 1..Len(Required(i)) : state[Required(i)[j]] = "false"

\* the step is a consent() call
ConsentStep == consentCalls' = consentCalls + 1

\* destination j is evaluated in the step's dispatch of event e: it gets its
\* transform if it is allowed and an enqueue if it is pending
Evaluated(j, e) ==
  /\ Allowed(j)' => Occurrences(StepTrace, L("transform", destinations[j].name, e)) > 0
  /\ PendingFor(j)' => Occurrences(StepTrace, L("enqueue", destinations[j].name, e)) > 0

\* C8 as stated: whenever a step dispatches an event and all of a
\* destination's required categories are explicitly false, the destination
\* gets no transform, send or enqueue for the event in that step and every
\* other destination is evaluated; a consent() call dispatches every queued
\* event, and leaves the queue empty if it leaves a destination denied.
C8_DeniedDrops ==
  [][ /\ \A e \in Replayed(StepTrace), i \in Registered :
           DeniedFor(i)' =>
             /\ Occurrences(StepTrace, L("transform", destinations[i].name, e)) = 0
             /\ Occurrences(StepTrace, L("send", destinations[i].name, e)) = 0
             /\ Occurrences(StepTrace, L("enqueue", destinations[i].name, e)) = 0
             /\ \A j \in Registered \ {i} : Evaluated(j, e)
      /\ ConsentStep =>
           /\ \A p \in 1..Len(queue) : queue[p].event.id \in Replayed(StepTrace)
           /\ (\E i \in Registered : DeniedFor(i)') => queue' = << >>
    ]_vars

\* C8 amended: the same for destinations whose required list holds a
\* category other than "necessary"; a consent() call dispatches every queued
\* event and leaves in the queue exactly one entry for each enqueue call the
\* replay made for a destination that is still pending, so that the queue
\* is left empty when no destination is pending.
C8_DeniedDropsUnlessNecessary ==
  [][ /\ \A e \in Replayed(StepTrace), i \in Registered :
           (DeniedFor(i)' /\ ~OnlyNecessary(Required(i))) =>
             /\ Occurrences(StepTrace, L("transform", destinations[i].name, e)) = 0
             /\ Occurrences(StepTrace, L("send", destinations[i].name, e)) = 0
             /\ Occurrences(StepTrace, L("enqueue", destinations[i].name, e)) = 0
             /\ \A j \in Registered \ {i} : Evaluated(j, e)
      /\ ConsentStep =>
           /\ \A p \in 1..Len(queue) : queue[p].event.id \in Replayed(StepTrace)
           /\ Len(queue') = Cardinality({p \in 1..Len(StepTrace) :
                                           StepTrace[p].op = "enqueue"})
           /\ (\A i \in Registered : ~PendingFor(i)') => queue' = << >>
    ]_vars

\* the consent() call that ran last left a destination denied and replayed
\* an event that had been queued for it; the destination never got the
\* event, another destination was sent it in the same pass, and the queue
\* is empty
C8_Witness ==
  /\ last.api = "consent"
  /\ queue = << >>
  /\ \E e \in Replayed(last.trace), i \in Registered :
       /\ DeniedFor(i)
       /\ ~OnlyNecessary(Required(i))
       /\ Count("enqueue", destinations[i].name, e) > 0
       /\ Count("send", destinations[i].name, e) = 0
       /\ \E j \in Registered \ {i} :
            Occurrences(last.trace, L("send", destinations[j].name, e)) > 0

\* C9: when a consent() call returns it has re-dispatched no queued event: it
\* has made no dispatch, no transform or send call and no queue:flush
\* emission; those happen in a later microtask.
C9_DeferredReplay ==
  last.api = "consent" =>
    \A p \in 1..Len(last.trace) :
      last.trace[p].op \notin {"dispatch", "transform", "send", "queue:flush"}

\* C10: in every consent() call, every configured consent signal's update
\* runs, and runs before any destination's onConsent, and every onConsent
\* runs before any transform of a replayed event.
C10_NotificationOrder ==
  last.api = "consent" =>
    LET t == last.trace
    IN /\ \A sig \in {"test-signal"} :
            \E p \in 1..Len(t) :
              /\ t[p] = L("signal.update", sig, 0)
              /\ \A q \in 1..Len(t) : t[q].op = "onConsent" => p < q
       /\ \A p, q \in 1..Len(t) :
            (t[p].op = "onConsent" /\ t[q].op = "transform") => p < q

\* C6: whenever the buffer is non-empty a live flush timer is due maxWait
\* after the track() call that made the buffer non-empty; the timer's
\* callback runs at that moment and dispatches the whole buffer; and a
\* track() call that finds the buffer non-empty and does not fill it leaves
\* the timer as it is.
C6_TimeFlush ==
  /\ [](buffer # << >> => (timerLive /\ flushTimer = bufferSince + maxWait))
  /\ [][ (calls' # calls /\ last'.api = "timer") =>
           /\ now = bufferSince + maxWait
           /\ DispatchedIds(last'.trace) = Ids(buffer)
       ]_vars
  /\ [][ (ValidTrackStep /\ buffer # << >> /\ buffer' # << >>) =>
           /\ flushTimer' = flushTimer
           /\ timerLive' = timerLive
       ]_vars

\* C11: a consent() call gives the destinations one event for each queue
\* entry, in queue order; each carries the collector's user as it is at the
\* call, and the id, entity, action, properties and timestamp of the queued
\* event, which are those track() built it with.
C11_ReplayIdentity ==
  [][ ConsentStep =>
        /\ Len(last'.events) = Len(queue)
        /\ \A k \in 1..Len(queue) :
             LET e == last'.events[k]
                 q == queue[k].event
             IN /\ e.user = user
                /\ e.id = q.id
                /\ e.entity = q.entity /\ e.entity = tracked[e.id].entity
                /\ e.action = q.action /\ e.action = tracked[e.id].action
                /\ e.properties = q.properties
                /\ e.timestamp = q.timestamp
                /\ Occurrences(last'.trace, L("dispatch", "-", e.id)) > 0
    ]_vars

\* the first event was tracked by an anonymous user and queued, identify()
\* was called afterwards, and the consent() call that ran last handed the
\* event with the identified user to the destination's transform
C11_Witness ==
  /\ last.api = "consent"
  /\ \E k \in 1..Len(last.events) :
       /\ last.events[k].id = 1
       /\ tracked[1] = PageViewed
       /\ last.events[k].user.userId = "user-42"
       /\ last.events[k].user # Anonymous
       /\ Occurrences(last.trace, L("transform", destinations[1].name, 1)) = 1

\* C12: the answer of isAllowed(required) is true if the list is empty or
\* holds nothing but "necessary", and otherwise true exactly when one of the
\* listed categories is "true" in the state; the answer of
\* isPending(categories) is true exactly when one of the listed categories
\* is undefined in the state.
C12_IsAllowedDecision ==
  /\ probe.op = "isAllowed" =>
       probe.answer =
         IF Range(probe.required) \subseteq {"necessary"}
           THEN TRUE
           ELSE Range(probe.required) \cap Granted(state) # {}
  /\ probe.op = "isPending" =>
       probe.answer =
         ({c \in Range(probe.required) : state[c] = "undefined"} # {})

\* isAllowed answered false for a list of two categories of which one is
\* false and the other undefined
C12_Witness ==
  /\ probe.op = "isAllowed"
  /\ probe.required = <<"analytics", "marketing">>
  /\ state["analytics"] = "false"
  /\ state["marketing"] = "undefined"
  /\ probe.answer = FALSE

\* C14: a setState(update) call leaves every category of the update with the
\* supplied value, whatever value it had, and every other category with the
\* value it had; it leaves the queue as it was.
C14_SetStateMerges ==
  [][probe'.op = "setState" =>
       /\ \A c \in Categories :
            state'[c] = IF c \in DOMAIN probe'.update
                          THEN probe'.update[c]
                          ELSE state[c]
       /\ queue' = queue]_vars

\* a setState of one category took it from granted back to pending, kept a
\* granted category it did not name, and left a queued event in the queue
C14_Witness ==
  /\ probe.op = "setState"
  /\ DOMAIN probe.update = {"analytics"}
  /\ probe.previous["analytics"] = "true"
  /\ state["analytics"] = "undefined"
  /\ probe.previous["marketing"] = "true"
  /\ state["marketing"] = "true"
  /\ probe.before # << >>
  /\ queue = probe.before

\* the calls of the listener named id among the calls a notification made
CallsTo(notified, id) == {i \in 1..Len(notified) : notified[i].listener = id}

\* C15: a setState call, also one whose update is empty, calls every listener
\* subscribed at the time exactly once within the call, with the state the
\* call leaves and the state it found; no exception leaves setState even
\* if a listener throws; a listener that is not subscribed, in particular one
\* that its unsubscribe function removed, is not called.
C15_ListenersNotified ==
  [][/\ probe'.op = "setState" =>
          /\ \A l \in ManagerListeners :
               /\ Cardinality(CallsTo(probe'.notified, l.id)) =
                    IF l \in Range(listeners) THEN 1 ELSE 0
               /\ \A i \in CallsTo(probe'.notified, l.id) :
                    /\ probe'.notified[i].state = state'
                    /\ probe'.notified[i].previous = state
          /\ ~probe'.threw
     /\ probe'.op = "unsubscribe" =>
          \A l \in Range(listeners') : l.id # probe'.listener]_vars

\* a setState with an empty update called the throwing listener and then the
\* other one
C15_Witness ==
  /\ probe.op = "setState"
  /\ probe.update = << >>
  /\ probe.previous = state
  /\ Len(probe.notified) = 2
  /\ probe.notified[1].listener = "bad"
  /\ probe.notified[2].listener = "good"

\* C16: a reset() call leaves the consent state equal to the configured
\* default state and the queue empty, so that a drain() that follows returns
\* nothing, and it calls every subscribed listener exactly once with the state
\* it leaves and the state it found.
C16_Reset ==
  [][/\ probe'.op = "reset" =>
          /\ state' = defaultState
          /\ queue' = << >>
          /\ \A l \in ManagerListeners :
               /\ Cardinality(CallsTo(probe'.notified, l.id)) =
                    IF l \in Range(listeners) THEN 1 ELSE 0
               /\ \A i \in CallsTo(probe'.notified, l.id) :
                    /\ probe'.notified[i].state = defaultState
                    /\ probe'.notified[i].previous = state
     /\ probe.op = "reset" /\ probe'.op = "drain" => probe'.drained = << >>]_vars

\* a reset() found a granted category and a queued event, with the default
\* state leaving the category pending, and called a listener
C16_Witness ==
  /\ probe.op = "reset"
  /\ probe.previous["analytics"] = "true"
  /\ defaultState["analytics"] = "undefined"
  /\ state = defaultState
  /\ probe.before # << >>
  /\ queue = << >>
  /\ probe.notified # << >>

\* destination i gets its transform in every dispatch of the step and is
\* never put on the consent queue by the step
PassedInStep(i) ==
  \A e \in Replayed(StepTrace) :
    /\ Occurrences(StepTrace, L("transform", destinations[i].name, e)) =
         Occurrences(StepTrace, L("dispatch", "-", e))
    /\ Occurrences(StepTrace, L("enqueue", destinations[i].name, e)) = 0

\* C13 as stated: whatever the stored value of "necessary", a destination
\* whose required categories include "necessary" is allowed by isAllowed
\* before and after every step, and every dispatch of a step hands the event
\* to the destination without queueing or dropping it.
C13_NecessaryIncluded ==
  [][\A i \in Registered :
       "necessary" \in Range(Required(i)) =>
         /\ isAllowed(state, Required(i))
         /\ isAllowed(state', Required(i))
         /\ PassedInStep(i)]_vars

\* C13 amended: the same for a destination whose required categories are all
\* "necessary".
C13_NecessaryOnly ==
  [][\A i \in Registered :
       ("necessary" \in Range(Required(i)) /\ OnlyNecessary(Required(i))) =>
         /\ isAllowed(state, Required(i))
         /\ isAllowed(state', Required(i))
         /\ PassedInStep(i)]_vars

\* with "necessary" stored as false, the operation that ran last dispatched
\* an event and the destination that needs only "necessary" got it
C13_Witness ==
  /\ state["necessary"] = "false"
  /\ \E i \in Registered, e \in EventIds :
       /\ Required(i) = <<"necessary">>
       /\ Occurrences(last.trace, L("dispatch", "-", e)) > 0
       /\ Occurrences(last.trace, L("send", destinations[i].name, e)) > 0

\* the step is a run of the cleanup interval's callback
SweepStep == cleanupAt' # cleanupAt

\* the age of a queue entry
Age(item) == now - item.queuedAt

\* C17: with a positive queueTimeout the sweep runs when a multiple of
\* min(queueTimeout, 30 s) has passed since construction, and a run removes
\* exactly the entries for which now - queuedAt >= queueTimeout and keeps the
\* younger ones in their order, so that no entry stays for queueTimeout plus
\* one interval; with queueTimeout = 0 no sweep is scheduled, the queue is
\* empty before and after every step, and a consent() call replays nothing.
C17_QueueExpiry ==
  [][/\ SweepStep =>
          /\ queueTimeout > 0
          /\ now = cleanupAt
          /\ cleanupAt % Min(queueTimeout, SweepCap) = 0
          /\ cleanupAt' = cleanupAt + Min(queueTimeout, SweepCap)
          /\ queue' = SelectSeq(queue, LAMBDA item : Age(item) < queueTimeout)
     /\ queueTimeout > 0 =>
          /\ cleanupAt # NULL /\ now <= cleanupAt
          /\ \A p \in 1..Len(queue) :
               Age(queue[p]) < queueTimeout + Min(queueTimeout, SweepCap)
     /\ queueTimeout = 0 =>
          /\ cleanupAt = NULL
          /\ queue = << >> /\ queue' = << >>
          /\ ConsentStep => Replayed(StepTrace) = {}]_vars

\* under a queueTimeout of two ticks the sweep removed the first event, which
\* no consent() call had drained, and a later run kept the second event,
\* queued one tick earlier
C17_Witness ==
  /\ queueTimeout = QueueTimeout
  /\ consentCalls = 0
  /\ nextId = 2
  /\ Len(queue) = 1
  /\ queue[1].event.id = 2
  /\ Age(queue[1]) = 1
  /\ cleanupAt > now

\* the place of the destination called `name` in registration order
DestIndex(name) == CHOOSE i \in Registered : destinations[i].name = name

\* the events for which a trace called consent.enqueue, in order
EnqueuedIds(trace) ==
  LET enq == SelectSeq(trace, LAMBDA x : x.op = "enqueue")
  IN [p \in 1..Len(enq) |-> enq[p].ev]

\* the events a step has to dispatch if it dispatches: the drained queue for a
\* consent() call, else the buffer followed by the event the step tracked
StepSource ==
  IF ConsentStep
    THEN Ids(QueuedEvents(queue))
    ELSE Ids(buffer) \o (IF nextId' # nextId THEN << nextId' >> ELSE << >>)

\* C18: a step that dispatches events dispatches the buffer in insertion
\* order (the order of the track() calls) or, if it is a consent() call, the
\* queue in queue order; every transform, send and enqueue belongs to the
\* event being dispatched; for one dispatch of one event the destinations
\* are taken in registration order, transform before send; and the queue
\* holds its entries in the order of the enqueue calls.
C18_DispatchOrder ==
  [][LET T == StepTrace
         D == DispatchedIds(T)
         Calls == SelectSeq(T, LAMBDA x : x.op \in {"dispatch", "transform", "send"})
         Rank(x) == 2 * DestIndex(x.dest) + (IF x.op = "send" THEN 1 ELSE 0)
     IN /\ D # << >> =>
             /\ D = StepSource
             /\ ~ConsentStep => \A p \in 1..(Len(D) - 1) : D[p] < D[p + 1]
        /\ \A p \in 1..Len(T) :
             T[p].op \in {"transform", "send", "enqueue"} =>
               /\ p > 1
               /\ T[p - 1].op \in {"dispatch", "transform", "send", "enqueue",
                                   "destination:send", "destination:error"}
               /\ T[p].ev = T[p - 1].ev
        /\ \A p \in 1..Len(Calls) :
             Calls[p].op # "dispatch" =>
               /\ p > 1
               /\ Calls[p - 1].op # "dispatch" => Rank(Calls[p - 1]) < Rank(Calls[p])
               /\ Calls[p].op = "send" => Calls[p - 1] = L("transform", Calls[p].dest,
                                                           Calls[p].ev)
        /\ T # << >> =>
             Ids(QueuedEvents(queue')) =
               (IF ConsentStep THEN << >> ELSE Ids(QueuedEvents(queue)))
                 \o EnqueuedIds(T)
    ]_vars

\* a consent() call replayed two different events, each of them to two
\* destinations
C18_Witness ==
  /\ last.api = "consent"
  /\ \E e, f \in EventIds, i, j \in Registered :
       /\ e < f
       /\ i < j
       /\ After(last.trace, L("send", destinations[j].name, e),
                            L("send", destinations[i].name, e))
       /\ After(last.trace, L("send", destinations[i].name, f),
                            L("send", destinations[j].name, e))

\* the number of flushBuffer() calls on the stack when the p-th call of a
\* trace was made
DepthAt(trace, p) ==
  Cardinality({q \in 1..p : trace[q].op = "flushBuffer"})
    - Cardinality({q \in 1..p : trace[q].op = "flushBuffer.return"})

\* the events a trace dispatched in flushBuffer() calls of the given depths,
\* in order
DispatchedAt(trace, depths) ==
  LET at == {p \in DispatchAt(trace) : DepthAt(trace, p) \in depths}
      nth(k) == CHOOSE p \in at : Cardinality({q \in at : q < p}) = k - 1
  IN [k \in 1..Cardinality(at) |-> trace[nth(k)].ev]

\* the events that the handler's track() calls built in the step
Reentrant == {e \in (nextId + 1)..nextId' : ~(last'.api = "track" /\ e = nextId + 1)}

\* C19: in a step whose track() call or timer callback flushes, with a
\* "destination:send" handler that calls track() during the dispatch, the
\* flush dispatches exactly the events it took from the buffer, each once
\* and in order, and none of them is dispatched by any flush nested in it or
\* left in the buffer; every event the handler tracked went to the new buffer:
\* the flush that was dispatching did not dispatch it, and it is either in
\* the buffer after the step or was dispatched once by a nested flush that
\* its track() call or a later one started when the new buffer reached maxSize.
C19_SwapAndClear ==
  [][LET T == StepTrace
         Taken == Ids(buffer) \o (IF last'.api = "track" THEN << nextId + 1 >> ELSE << >>)
         Nested == DispatchedAt(T, 2..Len(T))
     IN (\E p \in 1..Len(T) : T[p].op = "flushBuffer") =>
          /\ DispatchedAt(T, {1}) = Taken
          /\ \A p \in 1..Len(Taken) :
               /\ Taken[p] \notin Range(Nested)
               /\ ~Held(buffer', Taken[p])
          /\ \A e \in Reentrant :
               /\ e \notin Range(DispatchedAt(T, {1}))
               /\ Occurrences(Nested, e) + Occurrences(Ids(buffer'), e) = 1
          /\ Len(buffer') < maxSize
    ]_vars

\* a flush dispatched two events and the handler tracked an event during
\* the dispatch of the first one, which is in the buffer afterwards
C19_Witness ==
  /\ Len(DispatchedIds(last.trace)) = 2
  /\ \E p, q \in 1..Len(last.trace) :
       /\ p < q
       /\ last.trace[p].op = "event"
       /\ last.trace[q].op = "dispatch"
       /\ DepthAt(last.trace, p) = 1
       /\ Held(buffer, last.trace[p].ev)

\* the step in which shutdown() resolves
ShutdownResolves == shutdownPc # "done" /\ shutdownPc' = "done"

\* C20: shutdown() first flushes the buffer, dispatching what it holds, then
\* calls teardown on every registered destination, once each, then cancels
\* the flush timer; when it resolves the buffer is empty, no flush timer is
\* live and the sweep interval of the consent queue is no longer scheduled.
C20_Shutdown ==
  [][/\ (shutdownPc = "flush" /\ shutdownPc' = "teardown") =>
          /\ DispatchedIds(StepTrace) = Ids(buffer)
          /\ StepTrace[Len(StepTrace)] = L("teardown", destinations[1].name, 0)
          /\ buffer' = << >>
     /\ ShutdownResolves =>
          /\ \A i \in Registered : Count("teardown", destinations[i].name, 0)' = 1
          /\ buffer' = << >>
          /\ ~timerLive'
          /\ cleanupAt' = NULL
    ]_vars

\* C21: from construction on, init has been called exactly once for every
\* configured destination, none of the calls having waited for another init
\* to settle; each settled init is reported once, by destination:init or by
\* a destination:error for that destination alone; and every destination
\* that consent allows gets its transform for every dispatched event whatever
\* the inits did.
C21_ConcurrentInit ==
  /\ \A i \in Registered :
       /\ Count("init", destinations[i].name, 0) = 1
       /\ Count("destination:init", destinations[i].name, 0)
            + Count("destination:error", destinations[i].name, 0) <= 1
  /\ \A i \in Registered, e \in Replayed(last.trace) :
       Allowed(i) => Occurrences(last.trace, L("transform", destinations[i].name, e)) > 0

\* the init of destination i has settled and has been reported
InitReported(i) ==
  Count("destination:init", destinations[i].name, 0)
    + Count("destination:error", destinations[i].name, 0) = 1

\* the step is the flushBuffer() call of a flush() or of a shutdown()
ExplicitFlushStep ==
  /\ calls' # calls
  /\ last'.api \in {"flush.resumed", "shutdown.resumed"}

\* the flush() calls that have run their flushBuffer()
FlushesDone == flushCalls - flushWaiting

\* C22: the flushBuffer() of a flush() or shutdown() call runs only when the
\* init of every configured destination has settled; it dispatches the whole
\* buffer and leaves it empty; and, every init settling, every flush() call
\* gets to run it.
C22_FlushAwaitsInit ==
  /\ [][ExplicitFlushStep =>
          /\ \A i \in Registered : InitReported(i)
          /\ DispatchedIds(StepTrace) = Ids(buffer)
          /\ buffer' = << >>]_vars
  /\ \A n \in 1..(MaxFlushCalls + 1) : (flushCalls >= n) ~> (FlushesDone >= n)

\* a flush() call that was made before the first init settled has dispatched
\* the buffer, the inits having settled one after the other, one rejecting
C22_Witness ==
  /\ last.api = "flush.resumed"
  /\ DispatchedIds(last.trace) # << >>
  /\ \A i \in Registered : InitReported(i)
  /\ \E i \in Registered : Count("destination:error", destinations[i].name, 0) = 1

\* the rejected send promises whose catch handler has not run yet, for
\* destination A and event e
PendingRejections(A, e) ==
  Cardinality({p \in 1..Len(rejections) : rejections[p].dest = A /\ rejections[p].ev = e})

\* the sends of destination i, in the dispatches of a step, that returned a
\* promise that rejects
RejectedSends(i, e, outcomes, trace) ==
  Cardinality({k \in 1..Len(outcomes) :
                 outcomes[k][i] = "sendRejects" /\ Pass(trace, k)[1].ev = e})

\* C23: in a step that dispatches, a send of destination A that returns a
\* promise which rejects (later, or never within the step) is followed in
\* the same dispatch by destination:send for A, by the transform of every
\* later destination that consent allows, and by the dispatch of the
\* remaining events, with no destination:error in that step for A and the
\* event, so nothing was thrown; each such send leaves one rejection to be
\* handled; and the handling of a rejection emits exactly one
\* destination:error, naming the destination and the event of that send,
\* and nothing else.
C23_AsyncSendFailure ==
  [][calls' # calls =>
       LET T == last'.trace
           O == last'.outcomes
       IN /\ O # << >> =>
               /\ Cardinality(DispatchAt(T)) = Len(O)
               /\ \A k \in 1..Len(O), i \in Registered :
                    O[k][i] = "sendRejects" =>
                      LET pass == Pass(T, k)
                          e == pass[1].ev
                          A == destinations[i].name
                      IN /\ Occurrences(pass, L("send", A, e)) = 1
                         /\ After(pass, L("destination:send", A, e), L("send", A, e))
                         /\ Occurrences(pass, L("destination:error", A, e)) = 0
                         /\ \A j \in Registered :
                              (j > i /\ Allowed(j)') =>
                                After(pass, L("transform", destinations[j].name, e),
                                      L("send", A, e))
          /\ last'.api # "send.catch" =>
               \A i \in Registered, e \in 1..nextId' :
                 PendingRejections(destinations[i].name, e)' =
                   PendingRejections(destinations[i].name, e)
                     + (IF O = << >> THEN 0 ELSE RejectedSends(i, e, O, T))
          /\ last'.api = "send.catch" =>
               \E r \in Range(rejections) :
                 /\ T = << L("destination:error", r.dest, r.ev) >>
                 /\ Count("send", r.dest, r.ev) >= 1
                 /\ PendingRejections(r.dest, r.ev)' = PendingRejections(r.dest, r.ev) - 1
                 /\ Len(rejections') = Len(rejections) - 1
    ]_vars

\* the rejection of a send of the first destination has been reported, and
\* the second destination had been sent the same event
C23_Witness ==
  /\ last.api = "send.catch"
  /\ \E e \in EventIds :
       /\ last.trace = << L("destination:error", destinations[1].name, e) >>
       /\ Count("destination:send", destinations[1].name, e) = 1
       /\ Count("send", destinations[2].name, e) = 1

\* the calls of handler h for emissions of the given type among handler calls
HandlerCalls(handled, type, h) ==
  {p \in 1..Len(handled) : handled[p].type = type /\ handled[p].handler = h.id}

\* the emissions of the given type among the calls of a trace
Emissions(trace, type) == {q \in 1..Len(trace) : trace[q].op = type}

\* C24: in every step that emits, each handler subscribed to a type is called
\* once per emission of that type, also when a handler called before it
\* throws, and a handler that is not subscribed to the type, in particular
\* one whose unsubscribe function has been called, is not called; every call
\* gets the type, the payload of an emission of the step and the time; the
\* emitting operation does not throw, and a track() call still buffers or
\* dispatches its event; the unsubscribe function removes the handler.
C24_EventHandlers ==
  [][calls' # calls =>
       LET T == last'.trace
           H == last'.handled
       IN /\ \A type \in CollectorEvents, h \in {GoodHandler, BadHandler} :
               Cardinality(HandlerCalls(H, type, h)) =
                 IF h \in Range(eventListeners[type])
                   THEN Cardinality(Emissions(T, type))
                   ELSE 0
          /\ \A p \in 1..Len(H) :
               /\ H[p].timestamp = now'
               /\ \E q \in Emissions(T, H[p].type) :
                    H[p].payload = [dest |-> T[q].dest, ev |-> T[q].ev]
          /\ ~last'.threw
          /\ last'.api = "track" =>
               \/ Held(buffer', nextId')
               \/ nextId' \in Range(DispatchedIds(T))
          /\ last'.api = "unsubscribe" =>
               \A type \in CollectorEvents, h \in {GoodHandler, BadHandler} :
                 T = << L("unsubscribe", type, h.id) >> =>
                   h \notin Range(eventListeners'[type])
    ]_vars

\* a track() call emitted "event" to the throwing handler and then to the
\* other one, and buffered its event
C24_Witness ==
  /\ last.api = "track"
  /\ Held(buffer, nextId)
  /\ \E p, q \in 1..Len(last.handled) :
       /\ p < q
       /\ last.handled[p] = [handler |-> BadHandler.id, type |-> "event",
                             payload |-> [dest |-> "-", ev |-> nextId], timestamp |-> now]
       /\ last.handled[q] = [last.handled[p] EXCEPT !.handler = GoodHandler.id]

\* the arguments of a track() call match a lenient contract and fail its schema
LenientFails(inp) ==
  /\ findContract(Contracts, inp.entity, inp.action).mode = "lenient"
  /\ ~safeParse(inp.properties).success

\* the records of event e held in the buffer, in the consent queue or among
\* the events that the operation that ran last dispatched
Copies(e) ==
  {x \in Range(buffer) \cup Range(QueuedEvents(queue)) \cup Range(last.events) : x.id = e}

Judged(m, x) ==
  IF x.properties = "ok" THEN [valid |-> TRUE, event |-> x, errors |-> FALSE]
  ELSE IF m = "strict" THEN [valid |-> FALSE, event |-> x, errors |-> TRUE]
  ELSE [valid |-> TRUE, event |-> x, errors |-> TRUE]

\* C26: whatever register and unregister calls came before, validate(event)
\* answers as the contract registered under the event's exact entity:action
\* key judges it when there is one; as the entity:* contract judges it when
\* there is no exact contract but a wildcard one; and valid, with the same
\* event and no errors, when there is neither.  register(contract) leaves
\* the registry with exactly the keys it had plus the contract's key, with
\* the given contract under that key, whatever was there before, and every
\* other key as it was, so that a key never holds two contracts.
C26_LookupPrecedence ==
  /\ probe.op = "validate" =>
       LET x == probe.event
           exact == key(x.entity, x.action)
           wild == key(x.entity, "*")
       IN IF exact \in DOMAIN contracts
            THEN probe.result = Judged(contracts[exact].mode, x)
          ELSE IF wild \in DOMAIN contracts
            THEN probe.result = Judged(contracts[wild].mode, x)
          ELSE probe.result = [valid |-> TRUE, event |-> x, errors |-> FALSE]
  /\ probe.op = "register" =>
       LET k == key(probe.entity, probe.action)
       IN /\ DOMAIN contracts = DOMAIN probe.before \cup {k}
          /\ contracts[k] = probe.contract
          /\ \A j \in DOMAIN probe.before : j # k => contracts[j] = probe.before[j]

\* an event with failing properties was validated while a strict contract
\* was registered under its exact key and a lenient one under the wildcard key
C26_Witness ==
  /\ probe.op = "validate"
  /\ probe.event.properties = "bad"
  /\ key(probe.entity, probe.action) \in DOMAIN contracts
  /\ key(probe.entity, "*") \in DOMAIN contracts
  /\ key(probe.entity, "*") # key(probe.entity, probe.action)
  /\ contracts[key(probe.entity, probe.action)].mode = "strict"
  /\ contracts[key(probe.entity, "*")].mode = "lenient"
  /\ ~probe.result.valid

\* C27 as stated: after unregister(entity, action), hasContract(entity,
\* action) returns false.
C27_UnregisterRemoves ==
  probe.op = "unregister" => ~hasContract(contracts, probe.entity, probe.action)

\* C27: after unregister(entity, action) the registry holds no contract
\* under entity:action and every other key is as it was, and
\* hasContract(entity, action) returns false unless a contract is registered
\* under the wildcard key entity:*, in which case it returns true.
C27_UnregisterRemovesExact ==
  probe.op = "unregister" =>
    LET k == key(probe.entity, probe.action)
    IN /\ DOMAIN contracts = DOMAIN probe.before \ {k}
       /\ \A j \in DOMAIN contracts : contracts[j] = probe.before[j]
       /\ hasContract(contracts, probe.entity, probe.action)
            <=> key(probe.entity, "*") \in DOMAIN contracts

\* a registered exact contract was unregistered while a wildcard contract of
\* its entity stays registered
C27_Witness ==
  /\ probe.op = "unregister"
  /\ key(probe.entity, probe.action) \in DOMAIN probe.before
  /\ key(probe.entity, "*") \in DOMAIN contracts

\* the names under which an entry with enabled: false was supplied, in the
\* construction config or to addDestination
DisabledNames ==
  {x.name : x \in {y \in Range(ManagedConfig.destinations) \cup AddedEntries :
                     y.enabled = FALSE}}

\* C28: a destination whose entry has enabled === false, supplied in the
\* construction config or through addDestination, has received no init, no
\* transform and no send, for any event.
C28_DisabledSkipped ==
  \A name \in DisabledNames, op \in {"init", "transform", "send"}, e \in 0..nextId :
    Count(op, name, e) = 0

\* this step is a call of the named collector method
StepOf(api) == calls' # calls /\ last'.api = api

\* C29: a removeDestination(name) call for a registered name calls its
\* teardown once and leaves the name unregistered and the other entries as
\* they were, whatever the teardown did; for an unknown name it calls
\* nothing and changes nothing; and no transform or send is ever made for a
\* name that is not registered, so a removed destination gets none for the
\* events that were in the buffer or in the consent queue.
C29_RemoveDestination ==
  [][ /\ StepOf("removeDestination") =>
           LET name == last'.trace[1].dest
           IN IF has(destinations, name)
                THEN /\ Occurrences(last'.trace, L("teardown", name, 0)) = 1
                     /\ ~has(destinations', name)
                     /\ destinations' = SelectSeq(destinations, LAMBDA x : x.name # name)
                ELSE /\ Len(last'.trace) = 1
                     /\ ~last'.threw
                     /\ UNCHANGED << destinations, state, queue, buffer, initEntry >>
      /\ \A k \in 1..Len(StepTrace) :
           StepTrace[k].op \in {"transform", "send"} =>
             has(destinations, StepTrace[k].dest)
    ]_vars

\* C30: an addDestination(entry) call leaves exactly one entry under the
\* entry's name, the given one, at the position the name had when it was
\* registered before and at the end otherwise, calls no teardown, calls the
\* entry's init once, and returns without throwing, whatever init does.
C30_AddDestination ==
  [][ StepOf("addDestination") =>
        LET name == last'.trace[1].dest
            at == {p \in 1..Len(destinations') : destinations'[p].name = name}
        IN /\ Cardinality(at) = 1
           /\ \A p \in at : destinations'[p] \in AddedEntries
           /\ IF has(destinations, name)
                THEN /\ Len(destinations') = Len(destinations)
                     /\ at = {indexOf(destinations, name)}
                ELSE /\ Len(destinations') = Len(destinations) + 1
                     /\ at = {Len(destinations')}
           /\ \A k \in 1..Len(last'.trace) : last'.trace[k].op # "teardown"
           /\ Occurrences(last'.trace, L("init", name, 0)) = 1
           /\ ~last'.threw
    ]_vars

\* C31: in every consent() call, whatever a destination's onConsent does,
\* the onConsent of every registered destination is called once, every
\* event that was in the consent queue is dispatched again, and queue:flush
\* is emitted once with the number of drained entries.
C31_OnConsentIsolation ==
  [][ StepOf("consent") =>
        /\ \A i \in 1..Len(destinations) :
             Occurrences(last'.trace, L("onConsent", destinations[i].name, 0)) = 1
        /\ \A p \in 1..Len(queue) :
             Occurrences(last'.trace, L("dispatch", "-", queue[p].event.id)) >= 1
        /\ Occurrences(last'.trace, L("queue:flush", "-", Len(queue))) = 1
    ]_vars

\* C32: when shutdown() is over, resolved or rejected, teardown has been
\* called on every registered destination and no timeout is pending for the
\* flush timer.
C32_TeardownIsolation ==
  [][ (shutdownPc = "teardown" /\ shutdownPc' \in {"done", "rejected"}) =>
        /\ \A i \in 1..Len(destinations) :
             Count("teardown", destinations[i].name, 0)' = 1
        /\ ~timerLive'
    ]_vars

\* C33: no destination's send has been called more than once for the same
\* event, direct dispatches and replays from the consent queue together.
C33_AtMostOnce ==
  \A e \in EventIds, i \in Registered : Count("send", destinations[i].name, e) <= 1

\* C34: the consent queue holds at most one entry per event id.
C34_QueueUniqueness ==
  \A p, q \in 1..Len(queue) : queue[p].event.id = queue[q].event.id => p = q

\* C40: every transform and every send of a step is made for a destination
\* whose effective required categories (the entry's override if it has one,
\* the destination's declared consent otherwise) are all "necessary", or
\* none, or include a category that is true in the consent state of that
\* moment, in flushes and in replays alike.
C40_SendTimeConsent ==
  [][ \A k \in 1..Len(StepTrace) :
        StepTrace[k].op \in {"transform", "send"} =>
          \E i \in 1..Len(destinations) :
            /\ destinations[i].name = StepTrace[k].dest
            /\ LET required == IF destinations[i].hasOverride
                                 THEN destinations[i].override
                                 ELSE destinations[i].consent
               IN \/ \A j \in 1..Len(required) : required[j] = "necessary"
                  \/ \E j \in 1..Len(required) : state'[required[j]] = "true"
    ]_vars

\* a consent() call has replayed a queued event to a destination whose entry
\* overrides the consent its destination declares with a category that the
\* destination does not declare and that the call granted
C40_Witness ==
  /\ last.api = "consent"
  /\ \E i \in Registered :
       /\ destinations[i].hasOverride
       /\ state["analytics"] = "true"
       /\ state["marketing"] # "true"
       /\ destinations[i].consent = <<"marketing">>
       /\ \E k \in 1..Len(last.trace) :
            last.trace[k].op = "send" /\ last.trace[k].dest = destinations[i].name
       /\ \E k \in 1..Len(destinations[i].override) :
            destinations[i].override[k] = "analytics"

\* C35: a consent() call dispatches no event of a queue entry whose age has
\* reached queueTimeout, and an entry that its replay puts back in the queue
\* keeps the queuedAt of the entry it was drained from, so that it expires
\* queueTimeout after it was first enqueued.
C35_NoExpiredReplay ==
  [][ StepOf("consent") =>
        \A p \in 1..Len(queue) :
          /\ Age(queue[p]) >= queueTimeout =>
               Occurrences(last'.trace, L("dispatch", "-", queue[p].event.id)) = 0
          /\ \A q \in 1..Len(queue') :
               queue'[q].event.id = queue[p].event.id =>
                 queue'[q].queuedAt <= queue[p].queuedAt
    ]_vars

\* C36: between the collector's operations, the buffer is non-empty exactly
\* when the runtime holds a pending timeout for the flush timer.
C36_TimerBuffer == (buffer # << >>) <=> timerLive

\* the number of times an entry named `name` was registered: once by the
\* construction config when it names an enabled entry, and once by every
\* addDestination call
Registrations(name) ==
  Cardinality({p \in 1..Len(ManagedConfig.destinations) :
                 /\ ManagedConfig.destinations[p].name = name
                 /\ ManagedConfig.destinations[p].enabled # FALSE})
    + Count("addDestination", name, 0)

\* C37: whatever way addDestination calls interleave with the inits of
\* construction, init has been invoked at most once for every registration
\* of an entry, at most one destination:init or destination:error has been
\* emitted for it, and init has been invoked exactly once for each when no
\* init is left to call or to settle.
C37_InitOncePerRegistration ==
  \A name \in {x.name : x \in Range(ManagedConfig.destinations) \cup AddedEntries} :
    /\ Count("init", name, 0) <= Registrations(name)
    /\ Count("destination:init", name, 0) + Count("destination:error", name, 0)
         <= Registrations(name)
    /\ (initEntry = NoEntry /\ initPending = << >>) =>
         Count("init", name, 0) = Registrations(name)

\* the consent state that the last call of `op` for `dest` in this step was
\* handed, as a set: empty when the step made no such call
LastPassed(op, dest) ==
  LET ps == SelectSeq(last'.passed, LAMBDA x : x.op = op /\ x.dest = dest)
  IN IF ps = << >> THEN {} ELSE {ps[Len(ps)].state}

\* C38: when a collector.consent() call returns, whether or not a "consent"
\* event handler or an onConsent called consent() again meanwhile, the state
\* last passed to the onConsent of every registered destination and the last
\* payload of the "consent" event are the state that getConsent() returns.
C38_ConsentConvergence ==
  [][ StepOf("consent") =>
        /\ LastPassed("consent", "-") = {state'}
        /\ \A i \in 1..Len(destinations') :
             LastPassed("onConsent", destinations'[i].name) = {state'}
    ]_vars

\* C39: after reset() the manager's state is the state it had when
\* createConsentManager returned, so that analytics and marketing are still
\* denied when a respected DNT or GPC signal is active.
C39_ResetRestoresConstruction ==
  probe.op = "reset" => state = last.passed[1].state

====
